---- MODULE Spec2Model ----
(***************************************************************************)
(* uni-finder: the in-memory university catalog, the filter / sort /       *)
(* paginate service (src/lib/university-service.ts) and the two HTTP       *)
(* routes that call it (src/app/api/universities/route.ts and              *)
(* src/app/api/universities/compare/route.ts), the FilterPanel component  *)
(* (src/components/features/FilterPanel.tsx) with the debounce helper it   *)
(* uses, buildQueryString and the formatters (src/lib/utils/helpers.ts),   *)
(* the UniversitiesPage component (src/app/universities/page.tsx) and the  *)
(* table of ComparisonModal (src/components/features/ComparisonModal.tsx). *)
(*                                                                         *)
(* Conventions of the model                                                *)
(*   - a JavaScript string is the sequence of its characters, each a      *)
(*     one-character TLA+ string: "US" is <<"U", "S">>, "" is <<>>;       *)
(*   - a JavaScript number is a fixed-point integer counting 1/Unit-ths:  *)
(*     1.5 is 15, 20 is 200.  N(x) writes the whole number x;             *)
(*   - a value that may be null / undefined is Null (<<>>) or Some(v)     *)
(*     (<<v>>);                                                            *)
(*   - history remembers the first getUniversities call of a run and its  *)
(*     result; panel is the state of the FilterPanel component, its       *)
(*     debounce closures and the timers they set; universitiesPage is    *)
(*     the state of the UniversitiesPage component                        *)
(*     (src/app/universities/page.tsx) and of the requests it has sent.   *)
(***************************************************************************)
EXTENDS Integers, Sequences, FiniteSets, TLC

VARIABLES universities, pc, request, response, history, panel, universitiesPage

vars == <<universities, pc, request, response, history, panel, universitiesPage>>

----------------------------------------------------------------------------
(* Bounds of the model *)

\* longest catalog explored
MaxCatalog == 3

\* longest value of the compare route's ids parameter, in characters
MaxIdsLen == 5

\* longest list handed to sortUniversities
MaxSortLen == 4

\* most updateFilter calls of a FilterPanel run
MaxEdits == 3

\* how far the clock of a FilterPanel run advances, in steps of StepMs
MaxSteps == 4

\* most filter fields set in one call of filterUniversities
MaxActive == 2

\* most query parameters in one request to the list route
MaxParams == 3

----------------------------------------------------------------------------
(* Values *)

Unit == 10

N(x) == x * Unit

Null == <<>>

Some(v) == <<v>>

Min2(a, b) == IF a <= b THEN a ELSE b

Max2(a, b) == IF a >= b THEN a ELSE b

\* Math.abs
MathAbs(x) == IF x < 0 THEN 0 - x ELSE x

\* Array.prototype.includes
Includes(arr, x) == \E i \in 1..Len(arr) : arr[i] = x

Reverse(list) == [i \in 1..Len(list) |-> list[Len(list) + 1 - i]]

\* all sequences over S of length 0..n
SeqsUpTo(S, n) == UNION {[1..k -> S] : k \in 0..n}

\* String.prototype.split(','): the segments between the commas; one segment
\* (possibly empty) more than there are commas
RECURSIVE SplitFrom(_, _, _, _)
SplitFrom(s, i, cur, acc) ==
    IF i > Len(s) THEN Append(acc, cur)
    ELSE IF s[i] = "," THEN SplitFrom(s, i + 1, <<>>, Append(acc, cur))
    ELSE SplitFrom(s, i + 1, Append(cur, s[i]), acc)

split(s) == SplitFrom(s, 1, <<>>, <<>>)

\* .filter(Boolean) on an array of strings: the empty string is the falsy one
filterBoolean(arr) == SelectSeq(arr, LAMBDA x : x # <<>>)

\* !v for v a string or null (searchParams.get): null and "" are falsy
FalsyString(v) == v = Null \/ v[1] = <<>>

UpperCase ==
    <<"A", "B", "C", "D", "E", "F", "G", "H", "I", "J", "K", "L", "M",
      "N", "O", "P", "Q", "R", "S", "T", "U", "V", "W", "X", "Y", "Z">>

LowerCase ==
    <<"a", "b", "c", "d", "e", "f", "g", "h", "i", "j", "k", "l", "m",
      "n", "o", "p", "q", "r", "s", "t", "u", "v", "w", "x", "y", "z">>

\* String.prototype.toLowerCase
toLowerCase(s) ==
    [i \in 1..Len(s) |->
        IF \E j \in 1..Len(UpperCase) : UpperCase[j] = s[i]
        THEN LowerCase[CHOOSE j \in 1..Len(UpperCase) : UpperCase[j] = s[i]]
        ELSE s[i]]

\* String.prototype.includes: t occurs in s as a substring
StringIncludes(s, t) ==
    \E i \in 0..(Len(s) - Len(t)) : SubSeq(s, i + 1, i + Len(t)) = t

----------------------------------------------------------------------------
(* The catalog (lib/db): records of type University *)

Urban == <<"U", "r", "b", "a", "n">>

Suburban == <<"S", "u", "b", "u", "r", "b", "a", "n">>

Rural == <<"R", "u", "r", "a", "l">>

Low == <<"L", "o", "w">>

Medium == <<"M", "e", "d", "i", "u", "m">>

High == <<"H", "i", "g", "h">>

VeryHigh == <<"V", "e", "r", "y", " ", "H", "i", "g", "h">>

CS == <<"C", "S">>

Law == <<"L", "a", "w">>

Med == <<"M", "e", "d">>

\* The records catalogs are built from.  Identifiers are unique; ranking is a
\* positive number or null; percentages lie in [0, 100].
UniA ==
    [id |-> <<"1">>, name |-> <<"A", "b">>, country |-> <<"U", "S">>,
     city |-> <<"B", "o">>, description |-> <<"o", "l", "d">>,
     tuitionFee |-> N(20), ranking |-> Some(N(1)), establishedYear |-> N(1900),
     programs |-> <<CS, Law>>, acceptanceRate |-> 35, campusType |-> Urban,
     scholarshipAvailable |-> TRUE, employmentRate |-> N(90),
     researchOutput |-> VeryHigh,
     currency |-> <<"U", "S", "D">>]

UniB ==
    [id |-> <<"2">>, name |-> <<"b", "a">>, country |-> <<"U", "K">>,
     city |-> <<"O", "x">>, description |-> <<"O", "l", "d">>,
     tuitionFee |-> N(10), ranking |-> Some(N(5)), establishedYear |-> N(1100),
     programs |-> <<Law>>, acceptanceRate |-> N(20), campusType |-> Suburban,
     scholarshipAvailable |-> FALSE, employmentRate |-> N(80),
     researchOutput |-> High,
     currency |-> <<"G", "B", "P">>]

UniC ==
    [id |-> <<"1", "1">>, name |-> <<"a", "B">>, country |-> <<"U", "S">>,
     city |-> <<"N", "y">>, description |-> <<"n", "e", "w">>,
     tuitionFee |-> N(20), ranking |-> Null, establishedYear |-> N(2000),
     programs |-> <<CS, Med>>, acceptanceRate |-> N(50), campusType |-> Urban,
     scholarshipAvailable |-> TRUE, employmentRate |-> N(80),
     researchOutput |-> Medium,
     currency |-> <<"U", "S", "D">>]

UniD ==
    [id |-> <<"1", "2">>, name |-> <<"C", "a">>, country |-> <<"C", "A">>,
     city |-> <<"T", "o">>, description |-> <<"u", "s">>,
     tuitionFee |-> N(0), ranking |-> Null, establishedYear |-> N(1900),
     programs |-> <<Med>>, acceptanceRate |-> N(20), campusType |-> Rural,
     scholarshipAvailable |-> FALSE, employmentRate |-> N(70),
     researchOutput |-> Low,
     currency |-> <<"C", "A", "D">>]

Pool == {UniA, UniB, UniC, UniD}

\* the order the records of the pool appear in, in the catalogs of the list
\* route: rankings null, 5, 1, null
CatalogOrder == <<UniC, UniB, UniA, UniD>>

\* every catalog of at most MaxCatalog records with pairwise distinct ids
Catalogs ==
    {c \in SeqsUpTo(Pool, MaxCatalog) :
        \A i, j \in 1..Len(c) : i # j => c[i].id # c[j].id}

NoRequest == [route |-> "none"]

NoResponse == [status |-> 0]

\* no call of the service has been recorded yet
NoHistory == Null

\* the FilterPanel component is not mounted
NoPanel == [mounted |-> FALSE]

\* UniversitiesPage is not rendered
NoPage == [mounted |-> FALSE]

InitCatalog ==
    /\ universities \in Catalogs
    /\ pc = "idle"
    /\ request = NoRequest
    /\ response = NoResponse
    /\ history = NoHistory
    /\ panel = NoPanel
    /\ universitiesPage = NoPage

\* the response has been sent; the process serves the next request
Return ==
    /\ pc = "responded"
    /\ pc' = "idle"
    /\ request' = NoRequest
    /\ response' = NoResponse
    /\ UNCHANGED <<universities, history, panel, universitiesPage>>

----------------------------------------------------------------------------
(* UniversityService.getUniversityById / getUniversitiesByIds *)

getUniversitiesByIds(ids) ==
    SelectSeq(universities, LAMBDA u : Includes(ids, u.id))

----------------------------------------------------------------------------
(* GET /api/universities/compare?ids=id1,id2 *)

\* uni1.ranking && uni2.ranking: null and 0 are falsy
TruthyNumber(v) == v # Null /\ v[1] # 0

missingIds(idsParam) == FalsyString(idsParam)

\* mutated build: only too few identifiers are refused
wrongIdCount_tooFew(ids) == Len(ids) < 2

wrongIdCount(ids) == Len(ids) # 2

\* mutated build: 404 only when neither identifier resolves
notAllFound_none(found) == Len(found) = 0

notAllFound(found) == Len(found) # 2

\* mutated build: Math.abs forgotten
tuitionDifference_signed(uni1, uni2) == uni1.tuitionFee - uni2.tuitionFee

tuitionDifference(uni1, uni2) == MathAbs(uni1.tuitionFee - uni2.tuitionFee)

rankingDifference(uni1, uni2) ==
    IF TruthyNumber(uni1.ranking) /\ TruthyNumber(uni2.ranking)
    THEN Some(MathAbs(uni1.ranking[1] - uni2.ranking[1]))
    ELSE Null

acceptanceRateDifference(uni1, uni2) ==
    MathAbs(uni1.acceptanceRate - uni2.acceptanceRate)

employmentRateDifference(uni1, uni2) ==
    MathAbs(uni1.employmentRate - uni2.employmentRate)

comparisonOf(uni1, uni2) ==
    [universities |-> <<uni1, uni2>>,
     comparison |->
        [tuitionDifference |-> tuitionDifference(uni1, uni2),
         rankingDifference |-> rankingDifference(uni1, uni2),
         acceptanceRateDifference |-> acceptanceRateDifference(uni1, uni2),
         employmentRateDifference |-> employmentRateDifference(uni1, uni2)]]

\* the handler of a mutated build: each requested id is looked up in turn and
\* the tuition difference is signed
compareGET_signed(idsParam) ==
    IF missingIds(idsParam)
    THEN [status |-> 400, error |-> "Missing ids parameter", lookup |-> FALSE]
    ELSE LET ids == filterBoolean(split(idsParam[1])) IN
         IF wrongIdCount(ids)
         THEN [status |-> 400,
               error |-> "Exactly 2 university IDs are required for comparison",
               lookup |-> FALSE]
         ELSE LET found == SelectSeq(universities, LAMBDA u : u.id = ids[1])
                           \o SelectSeq(universities, LAMBDA u : u.id = ids[2]) IN
              IF notAllFound(found)
              THEN [status |-> 404,
                    error |-> "One or both universities not found",
                    lookup |-> TRUE]
              ELSE [status |-> 200,
                    body |-> [comparisonOf(found[1], found[2]) EXCEPT
                        !.comparison.tuitionDifference =
                            found[1].tuitionFee - found[2].tuitionFee],
                    lookup |-> TRUE]

\* The response of the handler; lookup records whether the catalog was
\* consulted (getUniversitiesByIds was called) before the response was built.
\* Destructuring fewer than two records leaves uni2 (or uni1) undefined, the
\* property access throws and the catch block answers 500.
compareGET(idsParam) ==
    IF missingIds(idsParam)
    THEN [status |-> 400, error |-> "Missing ids parameter", lookup |-> FALSE]
    ELSE LET ids == filterBoolean(split(idsParam[1])) IN
         IF wrongIdCount(ids)
         THEN [status |-> 400,
               error |-> "Exactly 2 university IDs are required for comparison",
               lookup |-> FALSE]
         ELSE LET found == getUniversitiesByIds(ids) IN
              IF notAllFound(found)
              THEN [status |-> 404,
                    error |-> "One or both universities not found",
                    lookup |-> TRUE]
              ELSE IF Len(found) < 2
              THEN [status |-> 500, error |-> "Internal server error",
                    lookup |-> TRUE]
              ELSE [status |-> 200, body |-> comparisonOf(found[1], found[2]),
                    lookup |-> TRUE]

IdChars == {"1", "2", ","}

\* searchParams.get('ids'): null when the parameter is missing
IdsParams == {Null} \cup {Some(s) : s \in SeqsUpTo(IdChars, MaxIdsLen)}

CompareRequest(idsParam) ==
    /\ pc = "idle"
    /\ pc' = "responded"
    /\ request' = [route |-> "compare", ids |-> idsParam]
    /\ response' = compareGET(idsParam)
    /\ UNCHANGED <<universities, history, panel, universitiesPage>>

\* a comparison request with any ids parameter of the model arrives
ServeCompare == pc = "idle" /\ \E idsParam \in IdsParams : CompareRequest(idsParam)

NextCompare ==
    \/ ServeCompare
    \/ Return

SpecCompare == InitCatalog /\ [][NextCompare]_vars

----------------------------------------------------------------------------
(* UniversityService.filterUniversities: one operator per filter step, each *)
(* taking the list the steps before it left                                 *)

\* `filters.xs && filters.xs.length > 0`
NonEmptyList(v) == v # Null /\ Len(v[1]) > 0

bySearch(filtered, filters) ==
    IF filters.search # Null /\ filters.search[1] # <<>>
    THEN LET searchLower == toLowerCase(filters.search[1]) IN
         SelectSeq(filtered, LAMBDA u :
            \/ StringIncludes(toLowerCase(u.name), searchLower)
            \/ StringIncludes(toLowerCase(u.city), searchLower)
            \/ StringIncludes(toLowerCase(u.country), searchLower)
            \/ StringIncludes(toLowerCase(u.description), searchLower))
    ELSE filtered

byCountries(filtered, filters) ==
    IF NonEmptyList(filters.countries)
    THEN SelectSeq(filtered, LAMBDA u : Includes(filters.countries[1], u.country))
    ELSE filtered

byCities(filtered, filters) ==
    IF NonEmptyList(filters.cities)
    THEN SelectSeq(filtered, LAMBDA u : Includes(filters.cities[1], u.city))
    ELSE filtered

byMinTuition(filtered, filters) ==
    IF filters.minTuition # Null
    THEN SelectSeq(filtered, LAMBDA u : u.tuitionFee >= filters.minTuition[1])
    ELSE filtered

\* mutated build: the step filters the catalog, not the list filtered so far
byMaxTuition_restart(filtered, filters) ==
    IF filters.maxTuition # Null
    THEN SelectSeq(universities, LAMBDA u : u.tuitionFee <= filters.maxTuition[1])
    ELSE filtered

byMaxTuition(filtered, filters) ==
    IF filters.maxTuition # Null
    THEN SelectSeq(filtered, LAMBDA u : u.tuitionFee <= filters.maxTuition[1])
    ELSE filtered

byMinRanking(filtered, filters) ==
    IF filters.minRanking # Null
    THEN SelectSeq(filtered, LAMBDA u :
            u.ranking # Null /\ u.ranking[1] >= filters.minRanking[1])
    ELSE filtered

\* mutated build: unranked records pass the upper ranking bound
byMaxRanking_keepsUnranked(filtered, filters) ==
    IF filters.maxRanking # Null
    THEN SelectSeq(filtered, LAMBDA u :
            u.ranking = Null \/ u.ranking[1] <= filters.maxRanking[1])
    ELSE filtered

byMaxRanking(filtered, filters) ==
    IF filters.maxRanking # Null
    THEN SelectSeq(filtered, LAMBDA u :
            u.ranking # Null /\ u.ranking[1] <= filters.maxRanking[1])
    ELSE filtered

byMinYear(filtered, filters) ==
    IF filters.minYear # Null
    THEN SelectSeq(filtered, LAMBDA u : u.establishedYear >= filters.minYear[1])
    ELSE filtered

byMaxYear(filtered, filters) ==
    IF filters.maxYear # Null
    THEN SelectSeq(filtered, LAMBDA u : u.establishedYear <= filters.maxYear[1])
    ELSE filtered

\* mutated build: `every` in place of `some`
byPrograms_every(filtered, filters) ==
    IF NonEmptyList(filters.programs)
    THEN SelectSeq(filtered, LAMBDA u :
            \A i \in 1..Len(filters.programs[1]) :
                Includes(u.programs, filters.programs[1][i]))
    ELSE filtered

byPrograms(filtered, filters) ==
    IF NonEmptyList(filters.programs)
    THEN SelectSeq(filtered, LAMBDA u :
            \E i \in 1..Len(filters.programs[1]) :
                Includes(u.programs, filters.programs[1][i]))
    ELSE filtered

byMinAcceptanceRate(filtered, filters) ==
    IF filters.minAcceptanceRate # Null
    THEN SelectSeq(filtered, LAMBDA u :
            u.acceptanceRate >= filters.minAcceptanceRate[1])
    ELSE filtered

\* an upper bound that excludes the bound itself
byMaxAcceptanceRate_exclusive(filtered, filters) ==
    IF filters.maxAcceptanceRate # Null
    THEN SelectSeq(filtered, LAMBDA u :
            u.acceptanceRate < filters.maxAcceptanceRate[1])
    ELSE filtered

byMaxAcceptanceRate(filtered, filters) ==
    IF filters.maxAcceptanceRate # Null
    THEN SelectSeq(filtered, LAMBDA u :
            u.acceptanceRate <= filters.maxAcceptanceRate[1])
    ELSE filtered

byCampusTypes(filtered, filters) ==
    IF NonEmptyList(filters.campusTypes)
    THEN SelectSeq(filtered, LAMBDA u : Includes(filters.campusTypes[1], u.campusType))
    ELSE filtered

byScholarship(filtered, filters) ==
    IF filters.scholarshipOnly # Null /\ filters.scholarshipOnly[1]
    THEN SelectSeq(filtered, LAMBDA u : u.scholarshipAvailable)
    ELSE filtered

byMinEmploymentRate(filtered, filters) ==
    IF filters.minEmploymentRate # Null
    THEN SelectSeq(filtered, LAMBDA u :
            u.employmentRate >= filters.minEmploymentRate[1])
    ELSE filtered

byResearchOutput(filtered, filters) ==
    IF NonEmptyList(filters.researchOutput)
    THEN SelectSeq(filtered, LAMBDA u :
            Includes(filters.researchOutput[1], u.researchOutput))
    ELSE filtered

filterUniversities(filters) ==
    LET f01 == bySearch(universities, filters)
        f02 == byCountries(f01, filters)
        f03 == byCities(f02, filters)
        f04 == byMinTuition(f03, filters)
        f05 == byMaxTuition(f04, filters)
        f06 == byMinRanking(f05, filters)
        f07 == byMaxRanking(f06, filters)
        f08 == byMinYear(f07, filters)
        f09 == byMaxYear(f08, filters)
        f10 == byPrograms(f09, filters)
        f11 == byMinAcceptanceRate(f10, filters)
        f12 == byMaxAcceptanceRate(f11, filters)
        f13 == byCampusTypes(f12, filters)
        f14 == byScholarship(f13, filters)
        f15 == byMinEmploymentRate(f14, filters)
    IN  byResearchOutput(f15, filters)

----------------------------------------------------------------------------
(* Calls of filterUniversities: the UniversityFilters objects explored *)

Asc == <<"a", "s", "c">>

Desc == <<"d", "e", "s", "c">>

FilterKeys ==
    <<"search", "countries", "cities", "minTuition", "maxTuition", "minRanking",
      "maxRanking", "minYear", "maxYear", "programs", "minAcceptanceRate",
      "maxAcceptanceRate", "campusTypes", "scholarshipOnly", "minEmploymentRate",
      "researchOutput">>

\* the values tried for each field of UniversityFilters
FilterValues(key) ==
    CASE key = "search" -> {<<>>, <<"O", "l">>, <<"b">>}
      [] key = "countries" -> {<<>>, <<<<"U", "S">>>>, <<<<"C", "A">>, <<"U", "S">>>>}
      [] key = "cities" -> {<<<<"B", "o">>>>, <<<<"O", "x">>, <<"N", "y">>>>}
      [] key = "minTuition" -> {N(0), N(15)}
      [] key = "maxTuition" -> {N(10), N(20)}
      [] key = "minRanking" -> {N(1), N(2)}
      [] key = "maxRanking" -> {N(1), N(100)}
      [] key = "minYear" -> {N(1000), N(1900)}
      [] key = "maxYear" -> {N(1900)}
      [] key = "programs" -> {<<>>, <<CS>>, <<Law, Med>>, <<CS, Law>>}
      [] key = "minAcceptanceRate" -> {35, N(20)}
      [] key = "maxAcceptanceRate" -> {N(20)}
      [] key = "campusTypes" -> {<<Urban>>, <<Rural, Suburban>>}
      [] key = "scholarshipOnly" -> {TRUE, FALSE}
      [] key = "minEmploymentRate" -> {N(80)}
      [] key = "researchOutput" -> {<<Low>>, <<High, VeryHigh>>}

\* a UniversityFilters object with every optional field undefined and the
\* schema's defaults for page, limit and sortOrder
DefaultFilters ==
    [search |-> Null, countries |-> Null, cities |-> Null, minTuition |-> Null,
     maxTuition |-> Null, minRanking |-> Null, maxRanking |-> Null,
     minYear |-> Null, maxYear |-> Null, programs |-> Null,
     minAcceptanceRate |-> Null, maxAcceptanceRate |-> Null,
     campusTypes |-> Null, scholarshipOnly |-> Null,
     minEmploymentRate |-> Null, researchOutput |-> Null,
     page |-> N(1), limit |-> N(12), sortBy |-> Null, sortOrder |-> Asc]

\* the last of FilterKeys that f sets, 0 if it sets none
LastFilterKey(f) ==
    LET set == {i \in 1..Len(FilterKeys) : f[FilterKeys[i]] # Null} IN
    IF set = {} THEN 0 ELSE CHOOSE i \in set : \A j \in set : j <= i

\* the objects that set exactly n of the fields of FilterKeys
RECURSIVE FiltersWith(_)
FiltersWith(n) ==
    IF n = 0 THEN {DefaultFilters}
    ELSE UNION {UNION {{[f EXCEPT ![FilterKeys[i]] = Some(v)] :
                            v \in FilterValues(FilterKeys[i])} :
                       i \in (LastFilterKey(f) + 1)..Len(FilterKeys)} :
                f \in FiltersWith(n - 1)}

FilterObjects == UNION {FiltersWith(n) : n \in 0..MaxActive}

FilterCall(filters) ==
    /\ pc = "idle"
    /\ pc' = "responded"
    /\ request' = [route |-> "filter", filters |-> filters]
    /\ response' = [status |-> 200, result |-> filterUniversities(filters)]
    /\ UNCHANGED <<universities, history, panel, universitiesPage>>

\* filterUniversities is called with any object of the model
ServeFilter == pc = "idle" /\ \E filters \in FilterObjects : FilterCall(filters)

NextFilter ==
    \/ ServeFilter
    \/ Return

SpecFilter == InitCatalog /\ [][NextFilter]_vars

----------------------------------------------------------------------------
(* UniversityService.sortUniversities *)

\* stand-in for Number.MAX_SAFE_INTEGER (2^53 - 1): a whole number above every
\* ranking of the model, small enough for TLC's 32-bit integers
MAX_SAFE_INTEGER == 1000000

\* collation order of String.prototype.localeCompare on lower-cased text:
\* blank, digits, letters; a character outside the table ranks first
Collation ==
    <<" ", "0", "1", "2", "3", "4", "5", "6", "7", "8", "9">> \o LowerCase

CollationRank(c) ==
    IF \E j \in 1..Len(Collation) : Collation[j] = c
    THEN CHOOSE j \in 1..Len(Collation) : Collation[j] = c
    ELSE 0

\* a.localeCompare(b): negative, zero or positive
RECURSIVE localeCompareFrom(_, _, _)
localeCompareFrom(a, b, i) ==
    IF i > Len(a) /\ i > Len(b) THEN 0
    ELSE IF i > Len(a) THEN -1
    ELSE IF i > Len(b) THEN 1
    ELSE IF CollationRank(a[i]) # CollationRank(b[i])
         THEN CollationRank(a[i]) - CollationRank(b[i])
    ELSE localeCompareFrom(a, b, i + 1)

localeCompare(a, b) == localeCompareFrom(a, b, 1)

SortName == <<"n", "a", "m", "e">>

SortRanking == <<"r", "a", "n", "k", "i", "n", "g">>

SortTuitionFee == <<"t", "u", "i", "t", "i", "o", "n", "F", "e", "e">>

SortEstablishedYear ==
    <<"e", "s", "t", "a", "b", "l", "i", "s", "h", "e", "d", "Y", "e", "a", "r">>

SortAcceptanceRate ==
    <<"a", "c", "c", "e", "p", "t", "a", "n", "c", "e", "R", "a", "t", "e">>

SortEmploymentRate ==
    <<"e", "m", "p", "l", "o", "y", "m", "e", "n", "t", "R", "a", "t", "e">>

SortFields ==
    {SortName, SortRanking, SortTuitionFee, SortEstablishedYear,
     SortAcceptanceRate, SortEmploymentRate}

\* `a.ranking ?? Number.MAX_SAFE_INTEGER`
rankingValue(u) == IF u.ranking = Null THEN N(MAX_SAFE_INTEGER) ELSE u.ranking[1]

\* a comparator that puts an unranked record behind a ranked one in both
\* orders, and otherwise compares as the code does
compareUniversities_unrankedLast(a, b, sortBy, sortOrder) ==
    IF sortBy = SortName
    THEN IF sortOrder = Asc
         THEN localeCompare(toLowerCase(a.name), toLowerCase(b.name))
         ELSE localeCompare(toLowerCase(b.name), toLowerCase(a.name))
    ELSE IF sortBy \notin SortFields THEN 0
    ELSE IF sortBy = SortRanking /\ a.ranking = Null /\ b.ranking # Null THEN 1
    ELSE IF sortBy = SortRanking /\ a.ranking # Null /\ b.ranking = Null THEN -1
    ELSE LET aValue == CASE sortBy = SortRanking -> rankingValue(a)
                         [] sortBy = SortTuitionFee -> a.tuitionFee
                         [] sortBy = SortEstablishedYear -> a.establishedYear
                         [] sortBy = SortAcceptanceRate -> a.acceptanceRate
                         [] sortBy = SortEmploymentRate -> a.employmentRate
             bValue == CASE sortBy = SortRanking -> rankingValue(b)
                         [] sortBy = SortTuitionFee -> b.tuitionFee
                         [] sortBy = SortEstablishedYear -> b.establishedYear
                         [] sortBy = SortAcceptanceRate -> b.acceptanceRate
                         [] sortBy = SortEmploymentRate -> b.employmentRate
         IN  IF sortOrder = Asc THEN aValue - bValue ELSE bValue - aValue

\* the comparator handed to Array.prototype.sort
compareUniversities(a, b, sortBy, sortOrder) ==
    IF sortBy = SortName
    THEN IF sortOrder = Asc
         THEN localeCompare(toLowerCase(a.name), toLowerCase(b.name))
         ELSE localeCompare(toLowerCase(b.name), toLowerCase(a.name))
    ELSE IF sortBy \notin SortFields THEN 0
    ELSE LET aValue == CASE sortBy = SortRanking -> rankingValue(a)
                         [] sortBy = SortTuitionFee -> a.tuitionFee
                         [] sortBy = SortEstablishedYear -> a.establishedYear
                         [] sortBy = SortAcceptanceRate -> a.acceptanceRate
                         [] sortBy = SortEmploymentRate -> a.employmentRate
             bValue == CASE sortBy = SortRanking -> rankingValue(b)
                         [] sortBy = SortTuitionFee -> b.tuitionFee
                         [] sortBy = SortEstablishedYear -> b.establishedYear
                         [] sortBy = SortAcceptanceRate -> b.acceptanceRate
                         [] sortBy = SortEmploymentRate -> b.employmentRate
         IN  IF sortOrder = Asc THEN aValue - bValue ELSE bValue - aValue

\* an unstable sort: x goes in front of the elements it compares equal to
InsertSorted_unstable(sorted, x, sortBy, sortOrder) ==
    LET later == {i \in 1..Len(sorted) :
                    compareUniversities(x, sorted[i], sortBy, sortOrder) <= 0}
        at == IF later = {} THEN Len(sorted) + 1
              ELSE CHOOSE i \in later : \A j \in later : i <= j
    IN  SubSeq(sorted, 1, at - 1) \o <<x>> \o SubSeq(sorted, at, Len(sorted))

\* Array.prototype.sort is stable: x goes behind every element that does not
\* compare greater than it
InsertSorted(sorted, x, sortBy, sortOrder) ==
    LET later == {i \in 1..Len(sorted) :
                    compareUniversities(x, sorted[i], sortBy, sortOrder) < 0}
        at == IF later = {} THEN Len(sorted) + 1
              ELSE CHOOSE i \in later : \A j \in later : i <= j
    IN  SubSeq(sorted, 1, at - 1) \o <<x>> \o SubSeq(sorted, at, Len(sorted))

RECURSIVE ArraySort(_, _, _, _)
ArraySort(list, n, sortBy, sortOrder) ==
    IF n = 0 THEN <<>>
    ELSE InsertSorted(ArraySort(list, n - 1, sortBy, sortOrder), list[n],
                      sortBy, sortOrder)

\* a sort that, given no field, still applies the direction
sortUniversities_directionOnly(list, sortBy, sortOrder) ==
    IF FalsyString(sortBy) THEN (IF sortOrder = Asc THEN list ELSE Reverse(list))
    ELSE ArraySort(list, Len(list), sortBy[1], sortOrder)

\* `if (!sortBy) return universities`: undefined and "" are falsy
sortUniversities(list, sortBy, sortOrder) ==
    IF FalsyString(sortBy) THEN list
    ELSE ArraySort(list, Len(list), sortBy[1], sortOrder)

\* a fifth record, for the lists sortUniversities is given: it ties with
\* another record in every sort field, the ranking included
UniE ==
    [id |-> <<"2", "1">>, name |-> <<"a", "b">>, country |-> <<"U", "K">>,
     city |-> <<"O", "x">>, description |-> <<"n", "e", "w">>,
     tuitionFee |-> N(10), ranking |-> Some(N(5)), establishedYear |-> N(2000),
     programs |-> <<Law>>, acceptanceRate |-> N(35), campusType |-> Suburban,
     scholarshipAvailable |-> FALSE, employmentRate |-> N(70),
     researchOutput |-> High,
     currency |-> <<"G", "B", "P">>]

SortPool == Pool \cup {UniE}

\* the lists sortUniversities is given: any records in any order, no record
\* twice (it is called on what filterUniversities returns)
SortLists ==
    {c \in SeqsUpTo(SortPool, MaxSortLen) :
        \A i, j \in 1..Len(c) : i # j => c[i].id # c[j].id}

InitSort ==
    /\ universities \in SortLists
    /\ pc = "idle"
    /\ request = NoRequest
    /\ response = NoResponse
    /\ history = NoHistory
    /\ panel = NoPanel
    /\ universitiesPage = NoPage

SortCall(sortBy, sortOrder) ==
    /\ pc = "idle"
    /\ pc' = "responded"
    /\ request' = [route |-> "sort", sortBy |-> sortBy, sortOrder |-> sortOrder]
    /\ response' = [status |-> 200,
                    result |-> sortUniversities(universities, sortBy, sortOrder)]
    /\ UNCHANGED <<universities, history, panel, universitiesPage>>

\* sortUniversities is called on the catalog with any field and order
ServeSort ==
    pc = "idle" /\ \E sortBy \in {Null} \cup {Some(f) : f \in SortFields},
                      sortOrder \in {Asc, Desc} : SortCall(sortBy, sortOrder)

NextSort ==
    \/ ServeSort
    \/ Return

SpecSort == InitSort /\ [][NextSort]_vars

----------------------------------------------------------------------------
(* Claims about sortUniversities *)

SortResponded == pc = "responded" /\ request.route = "sort"

\* C3: sorted by ranking, every record without a ranking comes after every
\* record with one, ascending and descending alike.
C3_UnrankedSortLast ==
    (SortResponded /\ request.sortBy = Some(SortRanking)) =>
        \A i, j \in 1..Len(response.result) :
            (response.result[i].ranking = Null /\ response.result[j].ranking # Null)
                => i > j

\* the ascending half of C3
C3_UnrankedSortLastAscending ==
    (SortResponded /\ request.sortBy = Some(SortRanking) /\ request.sortOrder = Asc) =>
        \A i, j \in 1..Len(response.result) :
            (response.result[i].ranking = Null /\ response.result[j].ranking # Null)
                => i > j

\* the key a record is sorted by: the lower-cased name, the ranking (absent
\* for an unranked record) or the numeric field
SortKey(u, sortBy) ==
    CASE sortBy = SortName -> toLowerCase(u.name)
      [] sortBy = SortRanking -> u.ranking
      [] sortBy = SortTuitionFee -> u.tuitionFee
      [] sortBy = SortEstablishedYear -> u.establishedYear
      [] sortBy = SortAcceptanceRate -> u.acceptanceRate
      [] sortBy = SortEmploymentRate -> u.employmentRate

\* where the record with the id of u stands in list (0: nowhere)
PositionIn(list, u) ==
    IF \E i \in 1..Len(list) : list[i].id = u.id
    THEN CHOOSE i \in 1..Len(list) : list[i].id = u.id
    ELSE 0

\* C11: the sort is stable.  For every sort field and both orders, two records
\* whose sort keys are equal stand in the result in the order they had in the
\* input; in particular the rankings [null, 5, 1, null] sorted ascending give
\* [1, 5, null, null] with the two unranked records in their input order.
C11_SortIsStable ==
    (SortResponded /\ request.sortBy # Null) =>
        /\ \A i, j \in 1..Len(universities) :
            (/\ i < j
             /\ SortKey(universities[i], request.sortBy[1])
                    = SortKey(universities[j], request.sortBy[1]))
                => /\ PositionIn(response.result, universities[i]) > 0
                   /\ PositionIn(response.result, universities[i])
                        < PositionIn(response.result, universities[j])
        /\ (/\ universities = CatalogOrder
            /\ request.sortBy = Some(SortRanking)
            /\ request.sortOrder = Asc)
                => response.result = <<UniA, UniB, UniC, UniD>>

\* the rankings [null, 5, 1, null] have been sorted ascending, and the two
\* unranked records, whose keys tie, have kept their order
C11_Witness ==
    /\ SortResponded
    /\ universities = CatalogOrder
    /\ request.sortBy = Some(SortRanking)
    /\ request.sortOrder = Asc
    /\ response.result[3] = UniC
    /\ response.result[4] = UniD

\* a descending sort by name has kept three records whose names tie in order
C11_NameTieDescending ==
    /\ SortResponded
    /\ request.sortBy = Some(SortName)
    /\ request.sortOrder = Desc
    /\ universities = <<UniC, UniD, UniE, UniA>>
    /\ response.result = <<UniD, UniC, UniE, UniA>>

NumericSortFields == SortFields \ {SortName}

\* no two records of the list have the same sort key
DistinctKeys(list, sortBy) ==
    \A i, j \in 1..Len(list) :
        i # j => SortKey(list[i], sortBy) # SortKey(list[j], sortBy)

C12_TuitionAscending ==
    /\ SortResponded
    /\ request.sortBy = Some(SortTuitionFee)
    /\ request.sortOrder = Asc
    /\ universities = <<UniA, UniD, UniB>>
    /\ response.result = <<UniD, UniB, UniA>>

----------------------------------------------------------------------------
(* UniversityService.paginateResults and getUniversities *)

\* Math.ceil(a / b) for a >= 0, b > 0
CeilDiv(a, b) == (a + b - 1) \div b

\* Array.prototype.slice(start, end) for 0 <= start <= end, given in 1/Unit^2:
\* both are truncated to integers and clipped to the length
slice(list, start, end) ==
    SubSeq(list, (start \div (Unit * Unit)) + 1,
           Min2(end \div (Unit * Unit), Len(list)))

\* a pagination whose pages run one record past their end
paginateResults_overlapping(list, page, limit) ==
    LET total == Len(list)
        totalPages == CeilDiv(total * Unit, limit)
        start == (page - Unit) * limit
        end == start + limit * Unit + Unit * Unit
    IN  [data |-> slice(list, start, end), total |-> total,
         totalPages |-> totalPages]

\* total and totalPages are counts (whole numbers, not scaled by Unit)
paginateResults(list, page, limit) ==
    LET total == Len(list)
        totalPages == CeilDiv(total * Unit, limit)
        start == (page - Unit) * limit
        end == start + limit * Unit
    IN  [data |-> slice(list, start, end), total |-> total,
         totalPages |-> totalPages]

\* getFilterOptions (lib/db): the distinct countries, cities and programs of
\* the whole catalog
getFilterOptions ==
    [countries |-> {universities[i].country : i \in 1..Len(universities)},
     cities |-> {universities[i].city : i \in 1..Len(universities)},
     programs |-> UNION {{universities[i].programs[j] :
                            j \in 1..Len(universities[i].programs)} :
                         i \in 1..Len(universities)}]

\* a service that derives the filter options from the matching records
getUniversities_optionsOfMatches(filters) ==
    LET filtered == filterUniversities(filters)
        sorted == sortUniversities(filtered, filters.sortBy, filters.sortOrder)
        paged == paginateResults(sorted, filters.page, filters.limit)
    IN  [data |-> paged.data,
         pagination |-> [total |-> paged.total, page |-> filters.page,
                         limit |-> filters.limit, totalPages |-> paged.totalPages],
         filters |-> [countries |-> {filtered[i].country : i \in 1..Len(filtered)},
                      cities |-> {filtered[i].city : i \in 1..Len(filtered)},
                      programs |-> UNION {{filtered[i].programs[j] :
                                             j \in 1..Len(filtered[i].programs)} :
                                          i \in 1..Len(filtered)}]]

getUniversities(filters) ==
    LET filtered == filterUniversities(filters)
        sorted == sortUniversities(filtered, filters.sortBy, filters.sortOrder)
        paged == paginateResults(sorted, filters.page, filters.limit)
    IN  [data |-> paged.data,
         pagination |-> [total |-> paged.total, page |-> filters.page,
                         limit |-> filters.limit, totalPages |-> paged.totalPages],
         filters |-> getFilterOptions]

----------------------------------------------------------------------------
(* GET /api/universities: query parsing, validation, response *)

Digits == <<"0", "1", "2", "3", "4", "5", "6", "7", "8", "9">>

IsDigit(c) == \E d \in 1..Len(Digits) : Digits[d] = c

DigitValue(c) == (CHOOSE d \in 1..Len(Digits) : Digits[d] = c) - 1

RECURSIVE DigitsValue(_, _)
DigitsValue(s, n) ==
    IF n = 0 THEN 0 ELSE DigitsValue(s, n - 1) * 10 + DigitValue(s[n])

NaN == [nan |-> TRUE, val |-> 0]

Num(v) == [nan |-> FALSE, val |-> v]

\* Number(s) for s an optional "-", digits, and optionally "." and at most one
\* more digit; anything else of the model's alphabet is NaN.  (A string with
\* two or more fractional digits has no fixed-point value; no request of the
\* model carries one.)
NumberUnsigned(s) ==
    LET dots == {i \in 1..Len(s) : s[i] = "."}
        dot == IF dots = {} THEN Len(s) + 1 ELSE CHOOSE i \in dots : TRUE
        whole == SubSeq(s, 1, dot - 1)
        frac == SubSeq(s, dot + 1, Len(s))
    IN  IF \/ Cardinality(dots) > 1
           \/ Len(frac) > 1
           \/ Len(whole) + Len(frac) = 0
           \/ \E i \in 1..Len(whole) : ~IsDigit(whole[i])
           \/ \E i \in 1..Len(frac) : ~IsDigit(frac[i])
        THEN NaN
        ELSE Num(DigitsValue(whole, Len(whole)) * Unit
                 + (IF frac = <<>> THEN 0 ELSE DigitValue(frac[1])) * (Unit \div 10))

Number(s) ==
    IF s = <<>> THEN Num(0)
    ELSE IF s[1] = "-"
    THEN LET n == NumberUnsigned(Tail(s)) IN
         IF n.nan THEN NaN ELSE Num(0 - n.val)
    ELSE NumberUnsigned(s)

True == <<"t", "r", "u", "e">>

\* `searchParams.get(k) || undefined`
stringParam(v) == IF FalsyString(v) THEN Null ELSE v

\* `searchParams.get(k)?.split(',').filter(Boolean) || undefined`
listParam(v) == IF v = Null THEN Null ELSE Some(filterBoolean(split(v[1])))

\* `searchParams.get(k) ? Number(searchParams.get(k)) : undefined`
numberParam(v) == IF FalsyString(v) THEN Null ELSE Some(Number(v[1]))

\* `searchParams.get(k) ? Number(searchParams.get(k)) : dflt`
numberParamOr(v, dflt) == IF FalsyString(v) THEN Num(dflt) ELSE Number(v[1])

rawFilters(searchParams) ==
    [search |-> stringParam(searchParams.search),
     countries |-> listParam(searchParams.countries),
     cities |-> listParam(searchParams.cities),
     minTuition |-> numberParam(searchParams.minTuition),
     maxTuition |-> numberParam(searchParams.maxTuition),
     minRanking |-> numberParam(searchParams.minRanking),
     maxRanking |-> numberParam(searchParams.maxRanking),
     minYear |-> numberParam(searchParams.minYear),
     maxYear |-> numberParam(searchParams.maxYear),
     programs |-> listParam(searchParams.programs),
     minAcceptanceRate |-> numberParam(searchParams.minAcceptanceRate),
     maxAcceptanceRate |-> numberParam(searchParams.maxAcceptanceRate),
     campusTypes |-> listParam(searchParams.campusTypes),
     scholarshipOnly |->
        IF searchParams.scholarshipOnly = Some(True) THEN Some(TRUE) ELSE Null,
     minEmploymentRate |-> numberParam(searchParams.minEmploymentRate),
     researchOutput |-> listParam(searchParams.researchOutput),
     page |-> numberParamOr(searchParams.page, N(1)),
     limit |-> numberParamOr(searchParams.limit, N(12)),
     sortBy |-> stringParam(searchParams.sortBy),
     sortOrder |-> IF FalsyString(searchParams.sortOrder) THEN Asc
                   ELSE searchParams.sortOrder[1]]

\* new Date().getFullYear()
CurrentYear == 2026

NoMax == N(MAX_SAFE_INTEGER)

\* a check that has lost its upper limit
numberOk_noMax(n, lo, hi) == ~n.nan /\ n.val >= lo

\* z.number().min(lo).max(hi): a number, not NaN, within the range
numberOk(n, lo, hi) == ~n.nan /\ n.val >= lo /\ n.val <= hi

\* z.number().min(lo).max(hi).optional()
optionalNumberOk(v, lo, hi) == v = Null \/ numberOk(v[1], lo, hi)

\* z.array(z.enum(values)).optional()
optionalEnumListOk(v, values) ==
    v = Null \/ \A i \in 1..Len(v[1]) : v[1][i] \in values

\* UniversityFiltersSchema.parse succeeds
schemaAccepts(raw) ==
    /\ optionalNumberOk(raw.minTuition, N(0), NoMax)
    /\ optionalNumberOk(raw.maxTuition, N(0), NoMax)
    /\ optionalNumberOk(raw.minRanking, N(1), NoMax)
    /\ optionalNumberOk(raw.maxRanking, N(1), NoMax)
    /\ optionalNumberOk(raw.minYear, N(1000), N(CurrentYear))
    /\ optionalNumberOk(raw.maxYear, N(1000), N(CurrentYear))
    /\ optionalNumberOk(raw.minAcceptanceRate, N(0), N(100))
    /\ optionalNumberOk(raw.maxAcceptanceRate, N(0), N(100))
    /\ optionalEnumListOk(raw.campusTypes, {Urban, Suburban, Rural})
    /\ optionalNumberOk(raw.minEmploymentRate, N(0), N(100))
    /\ optionalEnumListOk(raw.researchOutput, {Low, Medium, High, VeryHigh})
    /\ numberOk(raw.page, N(1), NoMax)
    /\ numberOk(raw.limit, N(1), N(100))
    /\ (raw.sortBy = Null \/ raw.sortBy[1] \in SortFields)
    /\ raw.sortOrder \in {Asc, Desc}

unwrapNumber(v) == IF v = Null THEN Null ELSE Some(v[1].val)

\* the value UniversityFiltersSchema.parse returns for an accepted object
schemaParse(raw) ==
    [raw EXCEPT
        !.minTuition = unwrapNumber(@), !.maxTuition = unwrapNumber(@),
        !.minRanking = unwrapNumber(@), !.maxRanking = unwrapNumber(@),
        !.minYear = unwrapNumber(@), !.maxYear = unwrapNumber(@),
        !.minAcceptanceRate = unwrapNumber(@),
        !.maxAcceptanceRate = unwrapNumber(@),
        !.minEmploymentRate = unwrapNumber(@),
        !.page = @.val, !.limit = @.val]

\* the response of the handler; engine records whether getUniversities ran
listGET(searchParams) ==
    LET raw == rawFilters(searchParams) IN
    IF ~schemaAccepts(raw)
    THEN [status |-> 400, error |-> "Invalid filter parameters", engine |-> FALSE]
    ELSE [status |-> 200, body |-> getUniversities(schemaParse(raw)),
          engine |-> TRUE]

ParamKeys == FilterKeys \o <<"page", "limit", "sortBy", "sortOrder">>

\* the values tried for each query parameter
ParamValues(key) ==
    CASE key = "search" -> {<<>>, <<"O", "l">>}
      [] key = "countries" -> {<<"U", "S", ",", "C", "A">>}
      [] key = "cities" -> {<<"O", "x", ",", ",", "N", "y">>}
      [] key = "minTuition" -> {<<"0">>}
      [] key = "maxTuition" -> {<<"1", "0">>}
      [] key = "minRanking" -> {<<"1">>}
      [] key = "maxRanking" -> {<<"1", "0", "0">>}
      [] key = "minYear" -> {<<"1", "9", "0", "0">>, <<"9", "9", "9">>}
      [] key = "maxYear" -> {<<"1", "9", "0", "0">>}
      [] key = "programs" -> {<<"L", "a", "w", ",", "M", "e", "d">>}
      [] key = "minAcceptanceRate" -> {<<"3", ".", "5">>, <<"1", "0", "1">>}
      [] key = "maxAcceptanceRate" -> {<<"2", "0">>, <<"-", "1">>}
      [] key = "campusTypes" -> {Urban, <<"C", "i", "t", "y">>}
      [] key = "scholarshipOnly" -> {True}
      [] key = "minEmploymentRate" -> {<<"8", "0">>, <<"x">>, <<"1", "0", "0", ".", "5">>}
      [] key = "researchOutput" -> {Low \o <<",">> \o VeryHigh}
      [] key = "page" -> {<<"1">>, <<"2">>, <<"1", ".", "5">>, <<"0">>}
      [] key = "limit" -> {<<"1">>, <<"2">>, <<"2", ".", "5">>, <<"1", "0", "1">>, <<"0">>}
      [] key = "sortBy" -> {SortRanking, SortTuitionFee, <<"i", "d">>}
      [] key = "sortOrder" -> {Desc, <<"u", "p">>}

\* a query string without parameters: searchParams.get returns null for each
NoParams ==
    [search |-> Null, countries |-> Null, cities |-> Null, minTuition |-> Null,
     maxTuition |-> Null, minRanking |-> Null, maxRanking |-> Null,
     minYear |-> Null, maxYear |-> Null, programs |-> Null,
     minAcceptanceRate |-> Null, maxAcceptanceRate |-> Null,
     campusTypes |-> Null, scholarshipOnly |-> Null,
     minEmploymentRate |-> Null, researchOutput |-> Null,
     page |-> Null, limit |-> Null, sortBy |-> Null, sortOrder |-> Null]

ListCatalogs ==
    {SubSeq(CatalogOrder, 1, n) : n \in 0..Min2(MaxCatalog, Len(CatalogOrder))}

InitList ==
    /\ universities \in ListCatalogs
    /\ pc = "idle"
    /\ request = NoRequest
    /\ response = NoResponse
    /\ history = NoHistory
    /\ panel = NoPanel
    /\ universitiesPage = NoPage

\* the query string of the request the client is composing
PendingParams == IF request = NoRequest THEN NoParams ELSE request.searchParams

\* the client adds one parameter to the query string of its next request
SetParam(key, value) ==
    /\ pc = "idle"
    /\ PendingParams[key] = Null
    /\ Cardinality({i \in 1..Len(ParamKeys) : PendingParams[ParamKeys[i]] # Null})
        < MaxParams
    /\ request' = [route |-> "list",
                   searchParams |-> [PendingParams EXCEPT ![key] = Some(value)]]
    /\ UNCHANGED <<universities, pc, response, history, panel, universitiesPage>>

\* the client sends the request and the handler answers it
ListRequest ==
    /\ pc = "idle"
    /\ pc' = "responded"
    /\ request' = [route |-> "list", searchParams |-> PendingParams]
    /\ response' = listGET(PendingParams)
    /\ UNCHANGED <<universities, history, panel, universitiesPage>>

NextList ==
    \/ \E i \in 1..Len(ParamKeys) :
        \E value \in ParamValues(ParamKeys[i]) : SetParam(ParamKeys[i], value)
    \/ ListRequest
    \/ Return

SpecList == InitList /\ [][NextList]_vars

----------------------------------------------------------------------------
(* Claims about the list route *)

ListResponded == pc = "responded" /\ request.route = "list"

\* C2: for a list request that passes validation, totalPages is
\* ceil(total / limit), data is no longer than limit and no longer than
\* max(0, total - (page - 1) * limit), total being the number of records that
\* match the filters.
C2_PaginationBounds ==
    (ListResponded /\ response.status = 200) =>
        LET p == response.body.pagination
            n == Len(response.body.data)
            matching == Len(filterUniversities(schemaParse(rawFilters(request.searchParams))))
        IN  /\ p.total = matching
            /\ (p.totalPages - 1) * p.limit < p.total * Unit
            /\ p.total * Unit <= p.totalPages * p.limit
            /\ n * Unit <= p.limit
            /\ n * Unit * Unit
                <= Max2(0, p.total * Unit * Unit - (p.page - Unit) * p.limit)

\* C2 restricted to requests whose page and limit are whole numbers
C2_PaginationBoundsWholeNumbers ==
    (/\ ListResponded
     /\ response.status = 200
     /\ response.body.pagination.page % Unit = 0
     /\ response.body.pagination.limit % Unit = 0) =>
        LET p == response.body.pagination
            n == Len(response.body.data)
        IN  /\ (p.totalPages - 1) * p.limit < p.total * Unit
            /\ p.total * Unit <= p.totalPages * p.limit
            /\ n * Unit <= p.limit
            /\ n * Unit * Unit
                <= Max2(0, p.total * Unit * Unit - (p.page - Unit) * p.limit)

\* the filters object the handler hands to getUniversities
ParsedFilters == schemaParse(rawFilters(request.searchParams))

\* the records of the catalog that match the request, in catalog order
MatchingInCatalogOrder ==
    SelectSeq(universities,
              LAMBDA u : \E i \in 1..Len(filterUniversities(ParsedFilters)) :
                            filterUniversities(ParsedFilters)[i] = u)

\* C13: without a sort field the records are returned in catalog order,
\* restricted to the matching ones, whichever sortOrder the request names.
C13_UnsortedKeepsCatalogOrder ==
    (ListResponded /\ response.status = 200 /\ request.searchParams.sortBy = Null) =>
        \E first \in 1..(Len(MatchingInCatalogOrder) + 1) :
            /\ first + Len(response.body.data) - 1 <= Len(MatchingInCatalogOrder)
            /\ response.body.data
                = SubSeq(MatchingInCatalogOrder, first,
                         first + Len(response.body.data) - 1)

\* a request with sortOrder=desc, no sortBy and a filter that drops the record
\* in the middle of the catalog has been answered with the two others
C13_Witness ==
    /\ ListResponded
    /\ response.status = 200
    /\ request.searchParams.sortBy = Null
    /\ request.searchParams.sortOrder = Some(Desc)
    /\ universities = <<UniC, UniB, UniA>>
    /\ response.body.data = <<UniC, UniA>>

\* C14: a page number greater than totalPages (any page when nothing matches)
\* is no error: the response is a success with empty data, and total and
\* totalPages still report the full count.
C14_PagePastEndIsEmpty ==
    (/\ ListResponded
     /\ response.status = 200
     /\ response.body.pagination.page
            > response.body.pagination.totalPages * Unit) =>
        /\ response.body.data = <<>>
        /\ response.body.pagination.total = Len(filterUniversities(ParsedFilters))
        /\ response.body.pagination.totalPages
            = CeilDiv(response.body.pagination.total * Unit,
                      response.body.pagination.limit)

\* C14 restricted to requests whose page is a whole number
C14_WholePagePastEndIsEmpty ==
    (/\ ListResponded
     /\ response.status = 200
     /\ response.body.pagination.page % Unit = 0
     /\ response.body.pagination.page
            > response.body.pagination.totalPages * Unit) =>
        /\ response.body.data = <<>>
        /\ response.body.pagination.total = Len(filterUniversities(ParsedFilters))
        /\ response.body.pagination.totalPages
            = CeilDiv(response.body.pagination.total * Unit,
                      response.body.pagination.limit)

\* page 2 of a single page of matches has been requested
C14_PastEndReached ==
    /\ ListResponded
    /\ response.status = 200
    /\ response.body.pagination.page = N(2)
    /\ response.body.pagination.totalPages = 1
    /\ response.body.pagination.total = 3

\* C15: the facet lists of a list response come from the whole catalog and do
\* not depend on the request: they are the ones the request without
\* parameters gets, also when no record matches.
C15_FacetsIgnoreRequest ==
    (ListResponded /\ response.status = 200) =>
        /\ response.body.filters = listGET(NoParams).body.filters
        /\ \A i \in 1..Len(universities) :
            /\ universities[i].country \in response.body.filters.countries
            /\ universities[i].city \in response.body.filters.cities
            /\ \A j \in 1..Len(universities[i].programs) :
                universities[i].programs[j] \in response.body.filters.programs

\* a request that a record of the catalog does not match, answered without
\* data while the facets still list the catalog's countries
C15_Witness ==
    /\ ListResponded
    /\ response.status = 200
    /\ Len(universities) = 3
    /\ filterUniversities(ParsedFilters) # universities
    /\ response.body.data = <<>>
    /\ Cardinality(response.body.filters.countries) = 2

\* the query parameter is present, not empty, and reads as a number below lo
ParamBelow(key, lo) ==
    /\ request.searchParams[key] # Null
    /\ request.searchParams[key][1] # <<>>
    /\ ~Number(request.searchParams[key][1]).nan
    /\ Number(request.searchParams[key][1]).val < lo

\* the query parameter is present, not empty, and reads as a number above hi
ParamAbove(key, hi) ==
    /\ request.searchParams[key] # Null
    /\ request.searchParams[key][1] # <<>>
    /\ ~Number(request.searchParams[key][1]).nan
    /\ Number(request.searchParams[key][1]).val > hi

\* C18: a list request with limit above 100, limit below 1, page below 1, or
\* an acceptance-rate or employment-rate bound outside [0, 100] is answered
\* with status 400 and the validation error; the filter engine does not run
\* and the response carries neither data nor pagination.
C18_InvalidRequestIsRejected ==
    (/\ ListResponded
     /\ \/ ParamAbove("limit", N(100))
        \/ ParamBelow("limit", N(1))
        \/ ParamBelow("page", N(1))
        \/ \E key \in {"minAcceptanceRate", "maxAcceptanceRate", "minEmploymentRate"} :
            ParamBelow(key, N(0)) \/ ParamAbove(key, N(100))) =>
        /\ response.status = 400
        /\ response.error = "Invalid filter parameters"
        /\ ~response.engine
        /\ DOMAIN response = {"status", "error", "engine"}

\* a request whose only fault is limit=101 has been rejected
C18_Witness ==
    /\ ListResponded
    /\ request.searchParams = [NoParams EXCEPT !.limit = Some(<<"1", "0", "1">>)]
    /\ response.status = 400

\* requests with limit=0, with page=0 and with a rate bound below 0 and one
\* above 100 have been rejected
C18_LimitZeroReached ==
    ListResponded /\ request.searchParams = [NoParams EXCEPT !.limit = Some(<<"0">>)]

C18_PageZeroReached ==
    ListResponded /\ request.searchParams = [NoParams EXCEPT !.page = Some(<<"0">>)]

C18_RateBoundsReached ==
    /\ ListResponded
    /\ request.searchParams
        = [NoParams EXCEPT !.maxAcceptanceRate = Some(<<"-", "1">>),
                           !.minEmploymentRate = Some(<<"1", "0", "0", ".", "5">>)]

\* the data of pages 1..n of the request, one after the other
RECURSIVE PagesUpTo(_, _)
PagesUpTo(filters, n) ==
    IF n = 0 THEN <<>>
    ELSE PagesUpTo(filters, n - 1)
            \o getUniversities([filters EXCEPT !.page = N(n)]).data

\* C27: for fixed filters, sort and whole-number limit the pages partition the
\* result: the data of pages 1..totalPages, one after the other, is the
\* filtered and sorted sequence, so no record is on two pages and no matching
\* record on none; the page answered is its own part of it.
C27_PagesPartitionResult ==
    (/\ ListResponded
     /\ response.status = 200
     /\ response.body.pagination.limit % Unit = 0) =>
        LET p == response.body.pagination
            all == sortUniversities(filterUniversities(ParsedFilters),
                                    ParsedFilters.sortBy, ParsedFilters.sortOrder)
        IN  /\ PagesUpTo(ParsedFilters, p.totalPages) = all
            /\ \A i, j \in 1..Len(all) : i # j => all[i].id # all[j].id
            /\ (p.page % Unit = 0 /\ p.page <= p.totalPages * Unit) =>
                    response.body.data
                        = SubSeq(all, ((p.page - Unit) * p.limit) \div (Unit * Unit) + 1,
                                 Min2(Len(all), (p.page * p.limit) \div (Unit * Unit)))

\* page 2 of three pages of one record each, sorted by ranking
C27_Witness ==
    /\ ListResponded
    /\ response.status = 200
    /\ universities = <<UniC, UniB, UniA>>
    /\ request.searchParams.sortBy = Some(SortRanking)
    /\ response.body.pagination = [total |-> 3, page |-> N(2), limit |-> N(1),
                                   totalPages |-> 3]
    /\ response.body.data = <<UniB>>

\* page 2 of a filtered result of two of three records, one record a page
C27_FilteredReached ==
    /\ ListResponded
    /\ response.status = 200
    /\ universities = <<UniC, UniB, UniA>>
    /\ response.body.pagination = [total |-> 2, page |-> N(2), limit |-> N(1),
                                   totalPages |-> 2]
    /\ response.body.data = <<UniA>>

----------------------------------------------------------------------------
(* Claims about filterUniversities *)

FilterResponded == pc = "responded" /\ request.route = "filter"

\* the field is set to a value that switches its filter step on
ActiveKey(filters, key) ==
    /\ filters[key] # Null
    /\ key \in {"search", "countries", "cities", "programs", "campusTypes",
                "researchOutput"} => filters[key][1] # <<>>
    /\ key = "scholarshipOnly" => filters[key][1]

ActiveKeys(filters) ==
    {FilterKeys[i] : i \in {j \in 1..Len(FilterKeys) : ActiveKey(filters, FilterKeys[j])}}

\* the request that keeps one field of filters and leaves the others undefined
Only(filters, key) == [DefaultFilters EXCEPT ![key] = filters[key]]

InSeq(u, list) == \E i \in 1..Len(list) : list[i] = u

\* C1: a record is in the result of filterUniversities iff it passes every
\* active filter applied alone (the result of several filters together is the
\* intersection, in catalog order, of the results of each alone), and with no
\* active filter the result is the whole catalog.
C1_FilteringIsConjunctive ==
    FilterResponded =>
        LET filters == request.filters
            alone(u) == \A key \in ActiveKeys(filters) :
                            InSeq(u, filterUniversities(Only(filters, key)))
        IN  /\ response.result = SelectSeq(universities, alone)
            /\ ActiveKeys(filters) = {} =>
                (/\ response.result = universities
                 /\ Len(response.result) = Len(universities))

\* C1 witness: two active filters, each alone keeps a record the other drops
C1_Witness ==
    /\ FilterResponded
    /\ Cardinality(ActiveKeys(request.filters)) = 2
    /\ Len(response.result) > 0
    /\ \A key \in ActiveKeys(request.filters) :
        Len(filterUniversities(Only(request.filters, key))) > Len(response.result)

\* a call whose fields are all inactive although some are set ("" , [], false)
C1_InactiveReached ==
    /\ FilterResponded
    /\ ActiveKeys(request.filters) = {}
    /\ request.filters # DefaultFilters
    /\ Len(universities) = MaxCatalog

\* C9: when minRanking or maxRanking is specified no unranked record is in the
\* result, whatever the bound; when neither is specified the ranking steps
\* remove no record, ranked or unranked.
C9_RankingBoundsDropUnranked ==
    FilterResponded =>
        LET filters == request.filters IN
        /\ (filters.minRanking # Null \/ filters.maxRanking # Null)
            => \A i \in 1..Len(response.result) : response.result[i].ranking # Null
        /\ (filters.minRanking = Null /\ filters.maxRanking = Null)
            => /\ byMaxRanking(byMinRanking(universities, filters), filters)
                    = universities
               /\ response.result =
                    byMaxRanking(byMinRanking(response.result, filters), filters)
               /\ ActiveKeys(filters) = {} => response.result = universities

\* C9 witness: an upper bound no ranking exceeds still drops the unranked record
C9_Witness ==
    /\ FilterResponded
    /\ request.filters.maxRanking = Some(N(100))
    /\ Cardinality(ActiveKeys(request.filters)) = 1
    /\ \E i \in 1..Len(universities) : universities[i].ranking = Null
    /\ Len(response.result) > 0
    /\ Len(response.result) < Len(universities)

\* an unranked record is returned by a call that sets no ranking bound
C9_UnrankedKept ==
    /\ FilterResponded
    /\ ActiveKeys(request.filters) # {}
    /\ \E i \in 1..Len(response.result) : response.result[i].ranking = Null

\* C10: with a non-empty programs filter a record passes the programs step
\* iff it offers at least one requested program, and the step is ANDed with
\* the other active filters.
C10_ProgramsMatchAny ==
    (FilterResponded /\ NonEmptyList(request.filters.programs)) =>
        LET filters == request.filters
            wanted == filters.programs[1]
            offersAny(u) == \E i \in 1..Len(wanted), j \in 1..Len(u.programs) :
                                u.programs[j] = wanted[i]
        IN  response.result =
                SelectSeq(filterUniversities([filters EXCEPT !.programs = Null]),
                          offersAny)

\* C10 witness: two programs requested together with another filter, and a
\* returned record that offers only one of the two
C10_Witness ==
    /\ FilterResponded
    /\ NonEmptyList(request.filters.programs)
    /\ Len(request.filters.programs[1]) = 2
    /\ Cardinality(ActiveKeys(request.filters)) = 2
    /\ Len(response.result) < Len(filterUniversities(Only(request.filters, "programs")))
    /\ \E i \in 1..Len(response.result) :
        \E k \in 1..2 :
            ~Includes(response.result[i].programs, request.filters.programs[1][k])

\* min <= v <= max, an absent bound leaving its side open
Within(v, min, max) ==
    /\ min = Null \/ v >= min[1]
    /\ max = Null \/ v <= max[1]

\* the request without its numeric range bounds
WithoutRanges(filters) ==
    [filters EXCEPT !.minTuition = Null, !.maxTuition = Null,
                    !.minRanking = Null, !.maxRanking = Null,
                    !.minYear = Null, !.maxYear = Null,
                    !.minAcceptanceRate = Null, !.maxAcceptanceRate = Null,
                    !.minEmploymentRate = Null]

\* C19: the numeric range filters include both ends.  Of the records the other
\* filters keep, a ranked record (or any record, when no ranking bound is set)
\* is returned exactly when its tuition fee, ranking, established year and
\* acceptance rate lie within [min, max], an absent bound leaving its side
\* open, and its employment rate is at least minEmploymentRate.
C19_RangeBoundsAreInclusive ==
    FilterResponded =>
        LET filters == request.filters
            others == filterUniversities(WithoutRanges(filters))
        IN  \A i \in 1..Len(others) :
                LET u == others[i] IN
                IF u.ranking = Null
                THEN (filters.minRanking = Null /\ filters.maxRanking = Null) =>
                        (InSeq(u, response.result) <=>
                            /\ Within(u.tuitionFee, filters.minTuition, filters.maxTuition)
                            /\ Within(u.establishedYear, filters.minYear, filters.maxYear)
                            /\ Within(u.acceptanceRate, filters.minAcceptanceRate,
                                      filters.maxAcceptanceRate)
                            /\ Within(u.employmentRate, filters.minEmploymentRate, Null))
                ELSE InSeq(u, response.result) <=>
                        /\ Within(u.tuitionFee, filters.minTuition, filters.maxTuition)
                        /\ Within(u.ranking[1], filters.minRanking, filters.maxRanking)
                        /\ Within(u.establishedYear, filters.minYear, filters.maxYear)
                        /\ Within(u.acceptanceRate, filters.minAcceptanceRate,
                                  filters.maxAcceptanceRate)
                        /\ Within(u.employmentRate, filters.minEmploymentRate, Null)

\* an acceptance rate equal to the upper bound is kept, one above it dropped
C19_Witness ==
    /\ FilterResponded
    /\ request.filters.maxAcceptanceRate = Some(UniB.acceptanceRate)
    /\ InSeq(UniB, response.result)
    /\ InSeq(UniC, universities)
    /\ UniC.acceptanceRate > UniB.acceptanceRate
    /\ ~InSeq(UniC, response.result)

\* a ranking equal to the lower bound and a tuition fee equal to the upper
\* bound are kept together
C19_LowerBoundReached ==
    /\ FilterResponded
    /\ request.filters.minRanking = UniA.ranking
    /\ request.filters.maxTuition = Some(UniA.tuitionFee)
    /\ InSeq(UniA, response.result)

\* an employment rate equal to minEmploymentRate is kept, a lower one dropped
C19_EmploymentReached ==
    /\ FilterResponded
    /\ request.filters.minEmploymentRate = Some(UniB.employmentRate)
    /\ InSeq(UniB, response.result)
    /\ InSeq(UniD, universities)
    /\ ~InSeq(UniD, response.result)

----------------------------------------------------------------------------
(* Claims about the comparison route *)

CompareResponded == pc = "responded" /\ request.route = "compare"

\* the identifiers the handler reads from the request (line 21)
RequestIds ==
    IF CompareResponded /\ ~missingIds(request.ids)
    THEN filterBoolean(split(request.ids[1]))
    ELSE <<>>

InCatalog(id) == \E i \in 1..Len(universities) : universities[i].id = id

Join2(a, b) == a \o <<",">> \o b

\* C4: a comparison request that names the same existing identifier twice
\* (ids=A,A) is answered InvalidArgument (400), not NotFound and not success.
C4_RepeatedIdIsInvalidArgument ==
    (/\ CompareResponded
     /\ Len(RequestIds) = 2
     /\ RequestIds[1] = RequestIds[2]
     /\ InCatalog(RequestIds[1]))
    => response.status = 400

\* C5: exactly two distinct identifiers, at least one of them matching no
\* catalog record: the answer is NotFound (404) and carries no universities
\* and no difference metrics.
C5_UnknownIdIsNotFound ==
    (/\ CompareResponded
     /\ Len(RequestIds) = 2
     /\ RequestIds[1] # RequestIds[2]
     /\ (~InCatalog(RequestIds[1]) \/ ~InCatalog(RequestIds[2])))
    => (response.status = 404 /\ "body" \notin DOMAIN response)

\* C5 witness: one identifier resolves, the other does not
C5_Witness ==
    /\ CompareResponded
    /\ Len(RequestIds) = 2
    /\ RequestIds[1] # RequestIds[2]
    /\ InCatalog(RequestIds[1])
    /\ ~InCatalog(RequestIds[2])
    /\ response.status = 404

\* C6: ids missing, or a number of non-empty identifiers other than 2: the
\* answer is 400, built before any catalog lookup, without a comparison payload.
C6_WrongCountIsClientError ==
    (/\ CompareResponded
     /\ (request.ids = Null \/ Len(RequestIds) # 2))
    => (/\ response.status = 400
        /\ ~response.lookup
        /\ "body" \notin DOMAIN response)

\* C6 witness: three identifiers, all of them in the catalog
C6_Witness ==
    /\ CompareResponded
    /\ Len(RequestIds) = 3
    /\ \A i \in 1..3 : InCatalog(RequestIds[i])
    /\ response.status = 400

\* C7: for two distinct existing identifiers A and B the comparisons of (A,B)
\* and of (B,A) carry the same four difference values.
C7_ComparisonSymmetric ==
    (/\ CompareResponded
     /\ Len(RequestIds) = 2
     /\ RequestIds[1] # RequestIds[2]
     /\ InCatalog(RequestIds[1])
     /\ InCatalog(RequestIds[2]))
    => LET swapped == compareGET(Some(Join2(RequestIds[2], RequestIds[1]))) IN
       /\ response.status = 200
       /\ swapped.status = 200
       /\ swapped.body.comparison = response.body.comparison

\* C7 witness: a successful comparison whose first requested identifier is the
\* later of the two in the catalog, with different tuition fees
C7_Witness ==
    /\ CompareResponded
    /\ response.status = 200
    /\ Len(RequestIds) = 2
    /\ RequestIds[1] = response.body.universities[2].id
    /\ response.body.comparison.tuitionDifference > 0

\* C8: on success each metric is the absolute difference of the two records'
\* fields, and rankingDifference is |rankingA - rankingB| exactly when both
\* records have a ranking and null exactly when at least one has none.
C8_MetricsAreAbsoluteDifferences ==
    (CompareResponded /\ response.status = 200)
    => LET a == response.body.universities[1]
           b == response.body.universities[2]
           m == response.body.comparison
           Dist(x, y) == Max2(x, y) - Min2(x, y)
       IN  /\ m.tuitionDifference = Dist(a.tuitionFee, b.tuitionFee)
           /\ m.acceptanceRateDifference = Dist(a.acceptanceRate, b.acceptanceRate)
           /\ m.employmentRateDifference = Dist(a.employmentRate, b.employmentRate)
           /\ m.tuitionDifference >= 0
           /\ m.acceptanceRateDifference >= 0
           /\ m.employmentRateDifference >= 0
           /\ (a.ranking # Null /\ b.ranking # Null)
                => m.rankingDifference = Some(Dist(a.ranking[1], b.ranking[1]))
           /\ (a.ranking = Null \/ b.ranking = Null) <=> m.rankingDifference = Null

\* C8 witness: both records ranked, the first cheaper and worse ranked
C8_Witness ==
    /\ CompareResponded
    /\ response.status = 200
    /\ response.body.universities[1].ranking # Null
    /\ response.body.universities[2].ranking # Null
    /\ response.body.universities[1].tuitionFee < response.body.universities[2].tuitionFee
    /\ response.body.comparison.rankingDifference # Null

\* a successful comparison of a ranked with an unranked record
C8_UnrankedReached ==
    /\ CompareResponded
    /\ response.status = 200
    /\ response.body.universities[1].ranking # Null
    /\ response.body.universities[2].ranking = Null

\* C28: in a successful comparison response the first university of the pair
\* is the record the first identifier of the request names and the second the
\* record the second identifier names, so that swapping the identifiers swaps
\* the labels.
C28_PairFollowsRequestOrder ==
    (CompareResponded /\ response.status = 200) =>
        /\ response.body.universities[1].id = RequestIds[1]
        /\ response.body.universities[2].id = RequestIds[2]

\* what the handler does: the pair stands in catalog order, the same for
\* ids=A,B and ids=B,A
C28_PairInCatalogOrder ==
    (CompareResponded /\ response.status = 200) =>
        /\ {response.body.universities[1].id, response.body.universities[2].id}
            = {RequestIds[1], RequestIds[2]}
        /\ PositionIn(universities, response.body.universities[1])
            < PositionIn(universities, response.body.universities[2])
        /\ response.body
            = compareGET(Some(Join2(RequestIds[2], RequestIds[1]))).body


----------------------------------------------------------------------------
(* UniversityService as the routes and pages call it, call after call *)

\* `universities.find(u => u.id === id) || null`
getUniversityById(id) ==
    IF \E i \in 1..Len(universities) : universities[i].id = id
    THEN Some(universities[CHOOSE i \in 1..Len(universities) :
                                /\ universities[i].id = id
                                /\ \A j \in 1..(i - 1) : universities[j].id # id])
    ELSE Null

\* `a.ranking || 0`
rankingOrZero(u) == IF TruthyNumber(u.ranking) THEN u.ranking[1] ELSE 0

\* Array.prototype.sort with `(a, b) => (a.ranking || 0) - (b.ranking || 0)`
InsertByRanking(sorted, x) ==
    LET later == {i \in 1..Len(sorted) : rankingOrZero(x) - rankingOrZero(sorted[i]) < 0}
        at == IF later = {} THEN Len(sorted) + 1
              ELSE CHOOSE i \in later : \A j \in later : i <= j
    IN  SubSeq(sorted, 1, at - 1) \o <<x>> \o SubSeq(sorted, at, Len(sorted))

RECURSIVE SortByRanking(_, _)
SortByRanking(list, n) ==
    IF n = 0 THEN <<>> ELSE InsertByRanking(SortByRanking(list, n - 1), list[n])

\* `universities.reduce((sum, u) => sum + u.tuitionFee, 0)`
RECURSIVE SumTuitionFee(_, _)
SumTuitionFee(list, n) ==
    IF n = 0 THEN 0 ELSE SumTuitionFee(list, n - 1) + list[n].tuitionFee

\* Math.round(sum / length): NaN for an empty catalog, else the nearest whole
\* number, a half rounding up
avgTuitionFee ==
    IF Len(universities) = 0 THEN NaN
    ELSE Num(N((2 * SumTuitionFee(universities, Len(universities))
                    + Len(universities) * Unit)
                \div (2 * Len(universities) * Unit)))

\* the first five of the ranked records in ranking order
topRanked(sorted) ==
    SubSeq(SelectSeq(sorted, LAMBDA u : u.ranking # Null), 1,
           Min2(5, Len(SelectSeq(sorted, LAMBDA u : u.ranking # Null))))

\* a build whose getStatistics sorts the catalog itself and filters afterwards:
\* Array.prototype.sort works in place
getStatistics_sortsCatalog ==
    LET sorted == SortByRanking(universities, Len(universities))
    IN  [result |-> [totalUniversities |-> Len(universities),
                     countries |-> Cardinality({universities[i].country :
                                                  i \in 1..Len(universities)}),
                     avgTuitionFee |-> avgTuitionFee,
                     topRanked |-> topRanked(sorted)],
         catalog |-> sorted]

\* getStatistics: result is the object returned, catalog the universities
\* array after the call.  `.sort` works in place, on the array `.filter`
\* returned, so the catalog is as before.
getStatistics ==
    LET ranked == SelectSeq(universities, LAMBDA u : u.ranking # Null)
        sorted == SortByRanking(ranked, Len(ranked))
    IN  [result |-> [totalUniversities |-> Len(universities),
                     countries |-> Cardinality({universities[i].country :
                                                  i \in 1..Len(universities)}),
                     avgTuitionFee |-> avgTuitionFee,
                     topRanked |-> topRanked(sorted)],
         catalog |-> universities]

\* a build whose sortUniversities sorts the catalog array itself
getUniversitiesCall_sortsCatalog(filters) ==
    [result |-> getUniversities(filters),
     catalog |-> sortUniversities(universities, filters.sortBy, filters.sortOrder)]

\* getUniversities: result is the object returned, catalog the universities
\* array after the call.  filterUniversities works on `[...universities]` and
\* sortUniversities sorts `[...universities]` of its parameter, both copies.
getUniversitiesCall(filters) ==
    [result |-> getUniversities(filters), catalog |-> universities]

\* the filters of the getUniversities calls: sorted or not, either order, the
\* first two pages of two records each
ServiceFilters ==
    {[DefaultFilters EXCEPT !.sortBy = sortBy, !.sortOrder = sortOrder,
                            !.page = page, !.limit = N(2)] :
        sortBy \in {Null, Some(SortRanking), Some(SortName)},
        sortOrder \in {Asc, Desc}, page \in {N(1), N(2)}}

\* the identifiers looked up: two of the pool and one no record has
ServiceIds == {UniA.id, UniB.id, <<"9">>}

ServiceIdLists == SeqsUpTo({UniA.id, UniB.id}, 2)

\* the first getUniversities call of the run is remembered with its result;
\* between collects the kinds of call made since
Remembered(kind) ==
    IF history = NoHistory THEN NoHistory
    ELSE Some([history[1] EXCEPT !.between = @ \cup {kind}])

CallGetUniversities(filters) ==
    /\ pc = "idle"
    /\ pc' = "responded"
    /\ request' = [route |-> "getUniversities", filters |-> filters]
    /\ response' = [status |-> 200, result |-> getUniversitiesCall(filters).result]
    /\ universities' = getUniversitiesCall(filters).catalog
    /\ history' = IF history = NoHistory
                  THEN Some([filters |-> filters,
                             result |-> getUniversitiesCall(filters).result,
                             between |-> {}])
                  ELSE IF history[1].filters = filters THEN history
                  ELSE Remembered("list")
    /\ UNCHANGED <<panel, universitiesPage>>

CallGetUniversityById(id) ==
    /\ pc = "idle"
    /\ pc' = "responded"
    /\ request' = [route |-> "getUniversityById", id |-> id]
    /\ response' = [status |-> 200, result |-> getUniversityById(id)]
    /\ history' = Remembered("lookup")
    /\ UNCHANGED <<universities, panel, universitiesPage>>

CallGetUniversitiesByIds(ids) ==
    /\ pc = "idle"
    /\ pc' = "responded"
    /\ request' = [route |-> "getUniversitiesByIds", ids |-> ids]
    /\ response' = [status |-> 200, result |-> getUniversitiesByIds(ids)]
    /\ history' = Remembered("lookup")
    /\ UNCHANGED <<universities, panel, universitiesPage>>

CallGetStatistics ==
    /\ pc = "idle"
    /\ pc' = "responded"
    /\ request' = [route |-> "getStatistics"]
    /\ response' = [status |-> 200, result |-> getStatistics.result]
    /\ universities' = getStatistics.catalog
    /\ history' = Remembered("statistics")
    /\ UNCHANGED <<panel, universitiesPage>>

NextService ==
    \/ pc = "idle" /\ \E filters \in ServiceFilters : CallGetUniversities(filters)
    \/ pc = "idle" /\ \E id \in ServiceIds : CallGetUniversityById(id)
    \/ pc = "idle" /\ \E ids \in ServiceIdLists : CallGetUniversitiesByIds(ids)
    \/ CallGetStatistics
    \/ Return

SpecService == InitCatalog /\ [][NextService]_vars

----------------------------------------------------------------------------
(* Claims about the service, call after call *)

ServiceListResponded == pc = "responded" /\ request.route = "getUniversities"

\* C16: a list request repeated, with any other list, lookup or statistics
\* calls in between, gets the data sequence and the pagination it got the
\* first time.
C16_RepeatedListRequestSameAnswer ==
    (/\ ServiceListResponded
     /\ history # NoHistory
     /\ request.filters = history[1].filters) =>
        /\ response.result.data = history[1].result.data
        /\ response.result.pagination = history[1].result.pagination

\* a sorted, paged request is answered again after another list request, a
\* lookup and a statistics call, on a catalog that is not in ranking order
C16_Witness ==
    /\ ServiceListResponded
    /\ history # NoHistory
    /\ request.filters = history[1].filters
    /\ history[1].between = {"list", "lookup", "statistics"}
    /\ request.filters.sortBy = Some(SortRanking)
    /\ request.filters.limit = N(2)
    /\ universities = <<UniB, UniC, UniA>>
    /\ response.result.data = <<UniA, UniB>>

\* C17: no call of getUniversities, getUniversityById, getUniversitiesByIds or
\* getStatistics changes the catalog: every step leaves the same records in
\* the same order.
C17_CatalogNeverChanges == [][universities' = universities]_vars

\* getStatistics has returned the ranked records in an order that differs from
\* their catalog order (its sort has moved records) and the catalog is later
\* listed in its own order
C17_Witness ==
    /\ ServiceListResponded
    /\ history # NoHistory
    /\ "statistics" \in history[1].between
    /\ request.filters.sortBy = Null
    /\ request.filters.page = N(1)
    /\ universities = <<UniB, UniC, UniA>>
    /\ response.result.data = <<UniB, UniC>>

\* the getStatistics call itself, its topRanked sorted apart from the catalog
C17_StatisticsReached ==
    /\ pc = "responded"
    /\ request.route = "getStatistics"
    /\ universities = <<UniB, UniC, UniA>>
    /\ response.result.topRanked = <<UniA, UniB>>
    /\ response.result.avgTuitionFee = Num(N(17))

----------------------------------------------------------------------------
(* buildQueryString and the query string it sends to GET /api/universities *)

ListKeys == {"countries", "cities", "programs", "campusTypes", "researchOutput"}

NumberKeys ==
    {"minTuition", "maxTuition", "minRanking", "maxRanking", "minYear", "maxYear",
     "minAcceptanceRate", "maxAcceptanceRate", "minEmploymentRate", "page", "limit"}

False == <<"f", "a", "l", "s", "e">>

RECURSIVE DigitsOf(_)
DigitsOf(n) ==
    IF n < 10 THEN <<Digits[n + 1]>>
    ELSE Append(DigitsOf(n \div 10), Digits[(n % 10) + 1])

\* String(x) for a number x: the sign, the whole part, and the fraction when
\* there is one
NumberToString(x) ==
    LET a == MathAbs(x) IN
    (IF x < 0 THEN <<"-">> ELSE <<>>)
        \o DigitsOf(a \div Unit)
        \o (IF a % Unit = 0 THEN <<>>
            ELSE <<".">> \o DigitsOf((a % Unit) \div (Unit \div 10)))

\* Array.prototype.join(',')
RECURSIVE join(_)
join(arr) ==
    IF arr = <<>> THEN <<>>
    ELSE IF Len(arr) = 1 THEN arr[1]
    ELSE arr[1] \o <<",">> \o join(Tail(arr))

\* String(value) for the value a field of UniversityFilters holds
StringOf(key, value) ==
    IF key \in NumberKeys THEN NumberToString(value)
    ELSE IF key = "scholarshipOnly" THEN (IF value THEN True ELSE False)
    ELSE value

\* the application/x-www-form-urlencoded serialisation of one character by
\* URLSearchParams.toString()
formEncodeChar(c) ==
    CASE c = " " -> <<"+">>
      [] c = "," -> <<"%", "2", "C">>
      [] c = "&" -> <<"%", "2", "6">>
      [] c = "=" -> <<"%", "3", "D">>
      [] c = "+" -> <<"%", "2", "B">>
      [] c = "%" -> <<"%", "2", "5">>
      [] OTHER -> <<c>>

RECURSIVE formEncode(_)
formEncode(s) ==
    IF s = <<>> THEN <<>> ELSE formEncodeChar(Head(s)) \o formEncode(Tail(s))

\* the parsing of the same by the URL the route reads its searchParams from
RECURSIVE formDecode(_)
formDecode(s) ==
    IF s = <<>> THEN <<>>
    ELSE IF Head(s) = "+" THEN <<" ">> \o formDecode(Tail(s))
    ELSE IF Head(s) = "%" /\ Len(s) >= 3
    THEN <<CHOOSE c \in {",", "&", "=", "+", "%"} :
                formEncodeChar(c) = SubSeq(s, 1, 3)>>
            \o formDecode(SubSeq(s, 4, Len(s)))
    ELSE <<Head(s)>> \o formDecode(Tail(s))

\* an entry only for a truthy value: a bound of 0 is left out as well
queryEntry_truthyOnly(key, v) ==
    IF v = Null \/ (key \in NumberKeys /\ v[1] = 0) THEN <<>>
    ELSE <<[key |-> key,
            value |-> formEncode(IF key \in ListKeys THEN join(v[1])
                                 ELSE IF key = "sortOrder" THEN v
                                 ELSE StringOf(key, v[1]))]>>

\* the entry buildQueryString sets for one key of params: nothing for
\* undefined, null, '' and the empty array.  (The field sortOrder holds its
\* string or nothing, every other optional field nothing or Some(value).)
queryEntry(key, v) ==
    LET value == IF key = "sortOrder" THEN v ELSE v[1] IN
    IF v = Null \/ (key \notin NumberKeys /\ key # "scholarshipOnly" /\ value = <<>>)
    THEN <<>>
    ELSE <<[key |-> key,
            value |-> formEncode(IF key \in ListKeys THEN join(value)
                                 ELSE StringOf(key, value))]>>

\* the query string as its key=value pairs, in the order of Object.entries;
\* no pair is the empty string '', one or more are "?" and the pairs joined
\* by "&"
RECURSIVE buildQueryFrom(_, _)
buildQueryFrom(params, i) ==
    IF i > Len(ParamKeys) THEN <<>>
    ELSE queryEntry(ParamKeys[i],
                    IF ParamKeys[i] \in {"page", "limit"}
                    THEN Some(params[ParamKeys[i]]) ELSE params[ParamKeys[i]])
            \o buildQueryFrom(params, i + 1)

buildQueryString(params) == buildQueryFrom(params, 1)

\* request.nextUrl.searchParams.get(key) for the URL that ends in query
searchParamsGet(query, key) ==
    LET at == {i \in 1..Len(query) : query[i].key = key} IN
    IF at = {} THEN Null
    ELSE Some(formDecode(query[CHOOSE i \in at : \A j \in at : i <= j].value))

searchParamsOf(query) ==
    [key \in DOMAIN NoParams |-> searchParamsGet(query, key)]

\* the number of fields of FilterKeys the filter objects of QueryFilters set
MaxQueryActive == 1

\* filter objects the page can hold: those of FiltersWith, a search with
\* characters the query string escapes, a negative and a fractional bound,
\* with the pages and the sort choices of the select (whose first option
\* gives sortBy '' and sortOrder undefined)
QueryFilters ==
    {[f EXCEPT !.page = pg, !.sortBy = sb, !.sortOrder = so] :
        f \in UNION {FiltersWith(n) : n \in 0..MaxQueryActive}
              \cup {[DefaultFilters EXCEPT !.search = Some(<<"a", " ", "&", "b">>)],
                    [DefaultFilters EXCEPT !.minTuition = Some(0 - 25)],
                    [DefaultFilters EXCEPT !.maxRanking = Some(N(1200))],
                    [DefaultFilters EXCEPT
                        !.minTuition = Some(N(0)),
                        !.countries = Some(<<<<"C", "A">>, <<"U", "S">>>>)]},
        pg \in {N(1), N(3)},
        sb \in {Null, Some(<<>>), Some(SortTuitionFee)},
        so \in {Null, Asc, Desc}}

InitQuery ==
    /\ universities = <<>>
    /\ pc = "idle"
    /\ request = NoRequest
    /\ response = NoResponse
    /\ history = NoHistory
    /\ panel = NoPanel
    /\ universitiesPage = NoPage

\* fetchUniversities builds the URL of its request from filters, and the
\* route parses the parameters of that URL
QueryCall(filters) ==
    /\ pc = "idle"
    /\ pc' = "responded"
    /\ request' = [route |-> "query", filters |-> filters,
                   url |-> buildQueryString(filters)]
    /\ response' = [status |-> 200,
                    rawFilters |-> rawFilters(searchParamsOf(buildQueryString(filters)))]
    /\ UNCHANGED <<universities, history, panel, universitiesPage>>

ServeQuery == Return

NextQuery ==
    \/ pc = "idle" /\ \E filters \in QueryFilters : QueryCall(filters)
    \/ ServeQuery

SpecQuery == InitQuery /\ [][NextQuery]_vars

----------------------------------------------------------------------------
(* Claims about buildQueryString *)

QueryResponded == pc = "responded" /\ request.route = "query"

\* the value of a field that counts as absent: undefined, '', the empty list
\* and false
Absent(key, v) ==
    \/ v = Null
    \/ key = "sortOrder" /\ v = <<>>
    \/ key = "scholarshipOnly" /\ v[1] = FALSE
    \/ key \notin NumberKeys \cup {"sortOrder", "scholarshipOnly"} /\ v[1] = <<>>

\* what the route is to read for a field the page holds
Expected(key, v) ==
    IF key \in {"page", "limit"} THEN Num(v)
    ELSE IF key = "sortOrder" THEN (IF Absent(key, v) THEN Asc ELSE v)
    ELSE IF Absent(key, v) THEN Null
    ELSE IF key \in NumberKeys THEN Some(Num(v[1]))
    ELSE v

\* C30: parsing buildQueryString(filters) with the list route's parameter
\* parsing gives back filters, field by field, where undefined, '', the
\* empty list and scholarshipOnly=false count as absent and an absent
\* sortOrder is 'asc'; a numeric bound of 0 survives.
C30_QueryStringRoundTrip ==
    QueryResponded =>
        \A key \in DOMAIN NoParams :
            response.rawFilters[key] = Expected(key, request.filters[key])

\* a round trip with a bound of 0, a list of two, an escaped search string
\* or a fractional bound
C30_Witness ==
    /\ QueryResponded
    /\ request.filters.minTuition = Some(N(0))
    /\ request.filters.countries = Some(<<<<"C", "A">>, <<"U", "S">>>>)
    /\ request.filters.sortBy = Some(SortTuitionFee)
    /\ request.filters.sortOrder = Desc
    /\ request.filters.page = N(3)
    /\ Len(request.url) = 6
    /\ response.rawFilters.minTuition = Some(Num(0))

C30_EscapedSearchReached ==
    /\ QueryResponded
    /\ request.filters.search = Some(<<"a", " ", "&", "b">>)
    /\ request.url[1].value = <<"a", "+", "%", "2", "6", "b">>
    /\ response.rawFilters.search = request.filters.search

C30_FalseIsAbsentReached ==
    /\ QueryResponded
    /\ request.filters.scholarshipOnly = Some(FALSE)
    /\ \E i \in 1..Len(request.url) : request.url[i].value = False
    /\ response.rawFilters.scholarshipOnly = Null

----------------------------------------------------------------------------
(* UniversitiesPage: its state, its handlers and the list requests it sends *)

\* the state after the first render and its effect: the default filters,
\* nothing to show yet, and the first list request in flight.  inflight
\* holds the filters of the requests sent and not yet answered, oldest first;
\* comparisons the identifier lists ComparisonModal has requested.
MountedPage ==
    [mounted |-> TRUE,
     universities |-> <<>>,
     pagination |-> [total |-> 0, page |-> N(1), limit |-> N(12), totalPages |-> 0],
     filterOptions |-> Null,
     filters |-> DefaultFilters,
     selectedForComparison |-> <<>>,
     isComparisonOpen |-> FALSE,
     isLoading |-> TRUE,
     error |-> Null,
     inflight |-> <<DefaultFilters>>,
     comparisons |-> {}]

\* fetchUniversities up to its await: the effect runs it after every render
\* that changed filters
fetchUniversities(p) ==
    [p EXCEPT !.isLoading = TRUE, !.error = Null,
              !.inflight = Append(@, p.filters)]

\* setFilters(f), the render that follows and the effect of that render
setFilters(p, f) == fetchUniversities([p EXCEPT !.filters = f])

handleFilterChange(p, newFilters) == setFilters(p, newFilters)

handlePageChange(p, newPage) == setFilters(p, [p.filters EXCEPT !.page = newPage])

\* a sort change that stays on the page shown
handleSortChange_keepsPage(p, sortBy, sortOrder) ==
    setFilters(p, [p.filters EXCEPT !.sortBy = sortBy, !.sortOrder = sortOrder])

handleSortChange(p, sortBy, sortOrder) ==
    setFilters(p, [p.filters EXCEPT !.sortBy = sortBy, !.sortOrder = sortOrder,
                                    !.page = N(1)])

\* the rest of fetchUniversities, once the response res of its request is there
fetchSettles(p, res) ==
    IF res.status = 200
    THEN [p EXCEPT !.universities = res.body.data,
                   !.pagination = res.body.pagination,
                   !.filterOptions = Some(res.body.filters),
                   !.isLoading = FALSE]
    ELSE [p EXCEPT !.error = Some("Failed to fetch universities"),
                   !.isLoading = FALSE]

\* the response of GET /api/universities to the request built from filters
listResponse(filters) == listGET(searchParamsOf(buildQueryString(filters)))

RemoveAt(list, k) == SubSeq(list, 1, k - 1) \o SubSeq(list, k + 1, Len(list))

\* the response to the k-th request in flight arrives
ResponseArrives(k) ==
    /\ universitiesPage.mounted
    /\ k \in 1..Len(universitiesPage.inflight)
    /\ universitiesPage' =
        [fetchSettles(universitiesPage, listResponse(universitiesPage.inflight[k]))
            EXCEPT !.inflight = RemoveAt(@, k)]
    /\ UNCHANGED <<universities, pc, request, response, history, panel>>

\* the pagination controls are rendered
paginationShown(p) == ~p.isLoading /\ p.pagination.totalPages > 1

previousDisabled(p) == p.pagination.page = N(1)

nextDisabled(p) == p.pagination.page = N(p.pagination.totalPages)

\* page buttons whose window stops one short of the last page
pageNumbers_shortWindow(pagination) ==
    [i \in 1..Min2(pagination.totalPages, 7) |->
        IF pagination.totalPages <= 7 THEN N(i)
        ELSE IF pagination.page <= N(4) THEN N(i)
        ELSE IF pagination.page >= N(pagination.totalPages - 3)
        THEN N(pagination.totalPages - 7 + (i - 1))
        ELSE pagination.page - N(3) + N(i - 1)]

\* the numbers of the page buttons, left to right (i - 1 is the index of
\* Array.from)
pageNumbers(pagination) ==
    [i \in 1..Min2(pagination.totalPages, 7) |->
        IF pagination.totalPages <= 7 THEN N((i - 1) + 1)
        ELSE IF pagination.page <= N(4) THEN N((i - 1) + 1)
        ELSE IF pagination.page >= N(pagination.totalPages - 3)
        THEN N(pagination.totalPages - 6 + (i - 1))
        ELSE pagination.page - N(3) + N(i - 1)]

ClickPrevious ==
    /\ universitiesPage.mounted
    /\ paginationShown(universitiesPage)
    /\ ~previousDisabled(universitiesPage)
    /\ universitiesPage' =
        handlePageChange(universitiesPage, universitiesPage.pagination.page - N(1))
    /\ UNCHANGED <<universities, pc, request, response, history, panel>>

ClickNext ==
    /\ universitiesPage.mounted
    /\ paginationShown(universitiesPage)
    /\ ~nextDisabled(universitiesPage)
    /\ universitiesPage' =
        handlePageChange(universitiesPage, universitiesPage.pagination.page + N(1))
    /\ UNCHANGED <<universities, pc, request, response, history, panel>>

ClickPageButton(i) ==
    /\ universitiesPage.mounted
    /\ paginationShown(universitiesPage)
    /\ i \in DOMAIN pageNumbers(universitiesPage.pagination)
    /\ universitiesPage' =
        handlePageChange(universitiesPage, pageNumbers(universitiesPage.pagination)[i])
    /\ UNCHANGED <<universities, pc, request, response, history, panel>>

\* most pages of results the catalogs of the pagination runs give
MaxPages == 9

\* record number k of a catalog long enough for several pages of 12
CatalogRecord(k) == [UniD EXCEPT !.id = DigitsOf(k)]

PagerCatalogs ==
    {[k \in 1..(12 * (pages - 1) + 1) |-> CatalogRecord(k)] : pages \in 2..MaxPages}

InitPager ==
    /\ universities \in PagerCatalogs
    /\ pc = "idle"
    /\ request = NoRequest
    /\ response = NoResponse
    /\ history = NoHistory
    /\ panel = NoPanel
    /\ universitiesPage = MountedPage

NextPager ==
    \/ ClickPrevious
    \/ ClickNext
    \/ \E i \in 1..7 : ClickPageButton(i)
    \/ \E k \in 1..MaxPages : ResponseArrives(k)

SpecPager == InitPager /\ [][NextPager]_vars

----------------------------------------------------------------------------
(* Claims about the pagination controls *)

\* C29: whenever the pagination controls are shown (totalPages > 1), the
\* page buttons are min(totalPages, 7) consecutive distinct integers within
\* 1..totalPages that include the current page; Previous is disabled exactly
\* on page 1 and Next exactly on page totalPages; and no page outside
\* 1..totalPages is ever requested.
C29_PageButtonsCoverCurrentPage ==
    (universitiesPage.mounted /\ universitiesPage.pagination.totalPages > 1) =>
        LET pg == universitiesPage.pagination
            nums == pageNumbers(pg)
        IN  /\ pg.page \in {N(n) : n \in 1..pg.totalPages}
            /\ Len(nums) = Min2(pg.totalPages, 7)
            /\ \A i \in 1..Len(nums) : nums[i] = nums[1] + N(i - 1)
            /\ nums[1] >= N(1)
            /\ nums[Len(nums)] <= N(pg.totalPages)
            /\ \E i \in 1..Len(nums) : nums[i] = pg.page
            /\ previousDisabled(universitiesPage) <=> pg.page = N(1)
            /\ nextDisabled(universitiesPage) <=> pg.page = N(pg.totalPages)
            /\ ENABLED ClickPrevious <=>
                    (paginationShown(universitiesPage) /\ pg.page # N(1))
            /\ ENABLED ClickNext <=>
                    (paginationShown(universitiesPage) /\ pg.page # N(pg.totalPages))
            /\ \A k \in 1..Len(universitiesPage.inflight) :
                    universitiesPage.inflight[k].page
                        \in {N(n) : n \in 1..pg.totalPages}

\* page 5 of 9 is shown, reached with the buttons, with the window 2..8
C29_Witness ==
    /\ universitiesPage.mounted
    /\ paginationShown(universitiesPage)
    /\ universitiesPage.pagination.totalPages = 9
    /\ universitiesPage.pagination.page = N(5)
    /\ pageNumbers(universitiesPage.pagination)
        = <<N(2), N(3), N(4), N(5), N(6), N(7), N(8)>>

\* the last page of 9 is shown, with the window 3..9 and Next disabled
C29_LastPageReached ==
    /\ universitiesPage.mounted
    /\ paginationShown(universitiesPage)
    /\ universitiesPage.pagination.totalPages = 9
    /\ universitiesPage.pagination.page = N(9)
    /\ pageNumbers(universitiesPage.pagination)[7] = N(9)
    /\ nextDisabled(universitiesPage)
    /\ ~ENABLED ClickNext

----------------------------------------------------------------------------
(* UniversitiesPage: selecting universities and opening the comparison *)

Without(list, id) == SelectSeq(list, LAMBDA x : x # id)

\* a selection that keeps growing
handleCompareSelect_noLimit(p, id) ==
    [p EXCEPT !.selectedForComparison =
        IF Includes(@, id) THEN Without(@, id) ELSE Append(@, id)]

handleCompareSelect(p, id) ==
    [p EXCEPT !.selectedForComparison =
        IF Includes(@, id) THEN Without(@, id)
        ELSE IF Len(@) < 2 THEN Append(@, id)
        ELSE <<@[2], id>>]

openComparison(p) ==
    IF Len(p.selectedForComparison) = 2 THEN [p EXCEPT !.isComparisonOpen = TRUE]
    ELSE p

\* the effect of ComparisonModal, run after a render that changed isOpen or
\* universityIds: fetchComparison asks for the comparison of universityIds
modalEffect(p) ==
    IF p.isComparisonOpen /\ Len(p.selectedForComparison) = 2
    THEN [p EXCEPT !.comparisons = @ \cup {p.selectedForComparison}]
    ELSE p

\* the cards are rendered
cardsShown(p) == ~p.isLoading /\ Len(p.universities) > 0

\* the Compare button of the card of the i-th university shown
ClickCompare(i) ==
    /\ universitiesPage.mounted
    /\ cardsShown(universitiesPage)
    /\ i \in 1..Len(universitiesPage.universities)
    /\ universitiesPage' =
        modalEffect(handleCompareSelect(universitiesPage,
                                        universitiesPage.universities[i].id))
    /\ UNCHANGED <<universities, pc, request, response, history, panel>>

\* the "Compare (n/2)" button: rendered with a selection, disabled unless
\* two are selected (with the modal open the click would change nothing)
ClickCompareSelected ==
    /\ universitiesPage.mounted
    /\ Len(universitiesPage.selectedForComparison) > 0
    /\ ~(Len(universitiesPage.selectedForComparison) # 2)
    /\ ~universitiesPage.isComparisonOpen
    /\ universitiesPage' = modalEffect(openComparison(universitiesPage))
    /\ UNCHANGED <<universities, pc, request, response, history, panel>>

\* onClose of ComparisonModal
CloseComparison ==
    /\ universitiesPage.mounted
    /\ universitiesPage.isComparisonOpen
    /\ universitiesPage' =
        modalEffect([universitiesPage EXCEPT !.isComparisonOpen = FALSE])
    /\ UNCHANGED <<universities, pc, request, response, history, panel>>

InitSelect ==
    /\ universities \in ListCatalogs
    /\ pc = "idle"
    /\ request = NoRequest
    /\ response = NoResponse
    /\ history = NoHistory
    /\ panel = NoPanel
    /\ universitiesPage = MountedPage

NextSelect ==
    \/ \E k \in 1..1 : ResponseArrives(k)
    \/ \E i \in 1..MaxCatalog : ClickCompare(i)
    \/ ClickCompareSelected
    \/ CloseComparison

SpecSelect == InitSelect /\ [][NextSelect]_vars

----------------------------------------------------------------------------
(* Claims about the comparison selection *)

SelectionWithinTwo ==
    LET sel == universitiesPage.selectedForComparison IN
    /\ Len(sel) <= 2
    /\ \A i, j \in 1..Len(sel) : i # j => sel[i] # sel[j]
    /\ \A ids \in universitiesPage.comparisons : Len(ids) = 2 /\ ids[1] # ids[2]

OpensOrRequestsWithTwo ==
    (\/ universitiesPage'.isComparisonOpen /\ ~universitiesPage.isComparisonOpen
     \/ universitiesPage'.comparisons # universitiesPage.comparisons)
        => /\ Len(universitiesPage'.selectedForComparison) = 2
           /\ universitiesPage'.isComparisonOpen
           /\ universitiesPage'.comparisons
                = universitiesPage.comparisons
                    \cup {universitiesPage'.selectedForComparison}

C21_DeselectReached ==
    /\ universitiesPage.mounted
    /\ universitiesPage.selectedForComparison = <<UniB.id>>
    /\ ~universitiesPage.isComparisonOpen
    /\ universitiesPage.comparisons = {<<UniC.id, UniB.id>>}

----------------------------------------------------------------------------
(* UniversitiesPage: changing the sort while list requests are in flight *)

\* String.prototype.split("-")
RECURSIVE SplitDashFrom(_, _, _, _)
SplitDashFrom(s, i, cur, acc) ==
    IF i > Len(s) THEN Append(acc, cur)
    ELSE IF s[i] = "-" THEN SplitDashFrom(s, i + 1, <<>>, Append(acc, cur))
    ELSE SplitDashFrom(s, i + 1, Append(cur, s[i]), acc)

\* values of sortOptions that the runs choose: "", "ranking-asc" and
\* "tuitionFee-desc"
SortOptionValues ==
    {<<>>, SortRanking \o <<"-">> \o Asc, SortTuitionFee \o <<"-">> \o Desc}

\* most list requests in flight at a time
MaxInFlight == 2

\* onChange of the sort select: `const [sortBy, sortOrder] = value.split("-")`,
\* a missing second part being undefined
ChangeSort(value) ==
    /\ universitiesPage.mounted
    /\ Len(universitiesPage.inflight) < MaxInFlight
    /\ LET parts == SplitDashFrom(value, 1, <<>>, <<>>) IN
       universitiesPage' =
            handleSortChange(universitiesPage, Some(parts[1]),
                             IF Len(parts) >= 2 THEN parts[2] ELSE Null)
    /\ UNCHANGED <<universities, pc, request, response, history, panel>>

InitFetch ==
    /\ universities \in ListCatalogs
    /\ pc = "idle"
    /\ request = NoRequest
    /\ response = NoResponse
    /\ history = NoHistory
    /\ panel = NoPanel
    /\ universitiesPage = MountedPage

NextFetch ==
    \/ \E value \in SortOptionValues : ChangeSort(value)
    \/ \E k \in 1..MaxInFlight : ResponseArrives(k)

SpecFetch == InitFetch /\ [][NextFetch]_vars

----------------------------------------------------------------------------
(* Claims about the list requests of the page *)

\* the page shows the response to its present filters
ShowsResponseFor(p, filters) ==
    /\ ~p.isLoading
    /\ p.universities = listResponse(filters).body.data
    /\ p.pagination = listResponse(filters).body.pagination

\* C24: once every list request in flight has been answered, in whatever
\* order, the universities and the pagination shown are those of the
\* response for the most recent filters, and isLoading is false.
C24_LatestFiltersShown ==
    (universitiesPage.mounted /\ universitiesPage.inflight = <<>>) =>
        ShowsResponseFor(universitiesPage, universitiesPage.filters)

\* C24, while requests are in flight: the page stays in its loading state
\* until the response for the most recent filters is there.
C24_LoadingUntilLatestAnswered ==
    (universitiesPage.mounted /\ universitiesPage.inflight # <<>>) =>
        universitiesPage.isLoading

\* the request for the present filters is still in flight, an older one has
\* been answered, and the page shows the older result as loaded
C24_StaleShownWhileLoading ==
    /\ universitiesPage.mounted
    /\ Len(universities) = 3
    /\ universitiesPage.inflight = <<universitiesPage.filters>>
    /\ universitiesPage.filters.sortBy = Some(SortRanking)
    /\ ~universitiesPage.isLoading
    /\ universitiesPage.universities = universities

\* every request has been answered, the one for the present filters first:
\* the page shows the catalog in the order of the older, unsorted request
C24_OlderResponseOverwrites ==
    /\ universitiesPage.mounted
    /\ universities = <<UniC, UniB, UniA>>
    /\ universitiesPage.inflight = <<>>
    /\ universitiesPage.filters.sortBy = Some(SortRanking)
    /\ universitiesPage.filters.sortOrder = Asc
    /\ listResponse(universitiesPage.filters).body.data = <<UniA, UniB, UniC>>
    /\ universitiesPage.universities = <<UniC, UniB, UniA>>

----------------------------------------------------------------------------
(* FilterPanel (src/components/features/FilterPanel.tsx) and debounce       *)
(* (src/lib/utils/helpers.ts).  panel.render counts the renders of the      *)
(* component; each debounce closure has a slot in panel.timeouts, its       *)
(* `timeout` variable; panel.timers are the pending setTimeout timers;      *)
(* panel.edits logs the updateFilter calls and panel.calls the              *)
(* onFilterChange invocations, each with the time it happened.              *)

\* the wait FilterPanel hands to debounce, in milliseconds
DebounceWait == 500

\* the clock advances in half waits
StepMs == DebounceWait \div 2

\* a component that keeps the debounce closure of its first render
debounceClosureOfRender_memoized(render) == 1

\* `const debouncedFilterChange = debounce(..., 500)` stands in the component
\* body: every render makes a closure of its own, with its own `timeout`
debounceClosureOfRender(render) == render

\* the component renders again: a further closure, its timeout null
Render(p) == [p EXCEPT !.render = @ + 1, !.timeouts = Append(@, Null)]

\* an executedFunction without its clearTimeout
executedFunction_noClear(p, c, args) ==
    LET id == Len(p.edits) + 1 IN
    [p EXCEPT !.timers = @ \cup {[id |-> id, due |-> p.now + DebounceWait,
                                  closure |-> c, args |-> args]},
              !.timeouts = [@ EXCEPT ![c] = Some(id)]]

\* executedFunction(...args) of closure c: clear the closure's pending timer,
\* if it has one, and set a new one
executedFunction(p, c, args) ==
    LET id == Len(p.edits) + 1
        kept == IF p.timeouts[c] # Null
                THEN {t \in p.timers : t.id # p.timeouts[c][1]}
                ELSE p.timers
    IN  [p EXCEPT !.timers = kept \cup {[id |-> id, due |-> p.now + DebounceWait,
                                         closure |-> c, args |-> args]},
                  !.timeouts = [@ EXCEPT ![c] = Some(id)]]

\* later() of timer t: `timeout = null; func(...args)`, func calling
\* onFilterChange
later(p, t) ==
    [p EXCEPT !.timers = @ \ {t},
              !.timeouts = [@ EXCEPT ![t.closure] = Null],
              !.calls = Append(@, [at |-> p.now, filters |-> t.args,
                                   via |-> "debounce"])]

\* onFilterChange: handleFilterChange of the page that renders the panel
onFilterChange(p, newFilters) ==
    IF p.mounted THEN handleFilterChange(p, newFilters) ELSE p

\* the keys the panel edits in the model and the values it sets them to
EditKeys == {"search", "minTuition"}

EditValues(key) ==
    CASE key = "search" -> {Null, Some(<<"O", "l">>)}
      [] key = "minTuition" -> {Some(N(10))}

\* keys other than page, limit, sortOrder and sortBy with a truthy value
activeFilterCount(localFilters) ==
    Cardinality({i \in 1..Len(FilterKeys) :
        LET key == FilterKeys[i]
            v == localFilters[key]
        IN  /\ v # Null
            /\ IF key = "scholarshipOnly" THEN v[1]
               ELSE IF key \in {"search", "countries", "cities", "programs",
                                "campusTypes", "researchOutput"}
               THEN v[1] # <<>>
               ELSE v[1] # 0})

InitPanel ==
    /\ universities = <<>>
    /\ pc = "idle"
    /\ request = NoRequest
    /\ response = NoResponse
    /\ history = NoHistory
    /\ panel = [mounted |-> TRUE, localFilters |-> DefaultFilters, render |-> 1,
                timeouts |-> <<Null>>, timers |-> {}, now |-> 0,
                edits |-> <<>>, calls |-> <<>>]
    /\ universitiesPage = NoPage

\* an input changes: updateFilter(key, value), then the render that
\* setLocalFilters causes
UpdateFilter(key, value) ==
    /\ panel.mounted
    /\ Len(panel.edits) < MaxEdits
    /\ LET newFilters == [panel.localFilters EXCEPT ![key] = value, !.page = N(1)]
           set == [panel EXCEPT !.localFilters = newFilters]
           called == executedFunction(set, debounceClosureOfRender(panel.render),
                                      newFilters)
       IN  panel' = Render([called EXCEPT
                        !.edits = Append(@, [at |-> panel.now,
                                             filters |-> newFilters])])
    /\ UNCHANGED <<universities, pc, request, response, history, universitiesPage>>

\* "Reset All", shown while a filter is active: onFilterChange at once
ResetFilters ==
    /\ panel.mounted
    /\ activeFilterCount(panel.localFilters) > 0
    /\ panel' = Render([panel EXCEPT
                    !.localFilters = DefaultFilters,
                    !.calls = Append(@, [at |-> panel.now,
                                         filters |-> DefaultFilters,
                                         via |-> "reset"])])
    /\ universitiesPage' = onFilterChange(universitiesPage, DefaultFilters)
    /\ UNCHANGED <<universities, pc, request, response, history>>

\* the earliest timer that is due fires; onFilterChange sets the page's
\* filters, and the page renders the panel again
TimerFires ==
    /\ panel.mounted
    /\ \E t \in panel.timers :
        /\ t.due <= panel.now
        /\ \A o \in panel.timers :
            o.due > t.due \/ (o.due = t.due /\ o.id >= t.id)
        /\ panel' = Render(later(panel, t))
        /\ universitiesPage' = onFilterChange(universitiesPage, t.args)
    /\ UNCHANGED <<universities, pc, request, response, history>>

\* StepMs pass; a timer that is due fires first
Tick ==
    /\ panel.mounted
    /\ panel.now < MaxSteps * StepMs
    /\ \A t \in panel.timers : t.due > panel.now
    /\ panel' = [panel EXCEPT !.now = @ + StepMs]
    /\ UNCHANGED <<universities, pc, request, response, history, universitiesPage>>

NextPanel ==
    \/ \E key \in EditKeys : \E value \in EditValues(key) : UpdateFilter(key, value)
    \/ ResetFilters
    \/ TimerFires
    \/ Tick

SpecPanel == InitPanel /\ [][NextPanel]_vars

----------------------------------------------------------------------------
(* Claims about FilterPanel *)

\* the i-th updateFilter call is the last of its burst: no call follows it
\* within DebounceWait
LastOfBurst(i) ==
    \/ i = Len(panel.edits)
    \/ panel.edits[i + 1].at - panel.edits[i].at >= DebounceWait

DebouncedCalls == {k \in 1..Len(panel.calls) : panel.calls[k].via = "debounce"}

\* C20: filter edits are debounced by 500 ms.  The updateFilter calls of a
\* burst (each less than 500 ms after the one before, the component rendering
\* after each) lead to one onFilterChange invocation: every invocation comes
\* 500 ms after the last call of a burst, with that call's filters, and there
\* are no more invocations than bursts.
C20_FilterEditsAreDebounced ==
    panel.mounted =>
        /\ \A k \in DebouncedCalls :
            \E i \in 1..Len(panel.edits) :
                /\ LastOfBurst(i)
                /\ panel.calls[k].at = panel.edits[i].at + DebounceWait
                /\ panel.calls[k].filters = panel.edits[i].filters
        /\ Cardinality(DebouncedCalls)
            <= Cardinality({i \in 1..Len(panel.edits) : LastOfBurst(i)})

\* the last call of a burst of two has been followed, 500 ms later, by an
\* onFilterChange with its filters
C20_LastEditDelivered ==
    /\ panel.mounted
    /\ Len(panel.edits) = 2
    /\ panel.edits[2].at - panel.edits[1].at = StepMs
    /\ \E k \in DebouncedCalls :
        /\ panel.calls[k].at = panel.edits[2].at + DebounceWait
        /\ panel.calls[k].filters = panel.edits[2].filters

\* a single updateFilter call is followed by one onFilterChange, 500 ms later
C20_SingleEditDelivered ==
    /\ panel.mounted
    /\ Len(panel.edits) = 1
    /\ panel.timers = {}
    /\ Len(panel.calls) = 1
    /\ panel.calls[1].at = panel.edits[1].at + DebounceWait
    /\ panel.calls[1].filters = panel.edits[1].filters

----------------------------------------------------------------------------
(* UniversitiesPage with the FilterPanel it renders.  (A render of the page *)
(* renders the panel again; the debounce closure of such a render is        *)
(* replaced by the next render before any call uses it, so the runs do not  *)
(* count it.)                                                               *)

\* "Reset Filters" of the page, shown when a finished request found nothing
ClickResetFilters ==
    /\ universitiesPage.mounted
    /\ ~universitiesPage.isLoading
    /\ universitiesPage.error = Null
    /\ Len(universitiesPage.universities) = 0
    /\ Len(universitiesPage.inflight) < MaxInFlight
    /\ universitiesPage' = handleFilterChange(universitiesPage, DefaultFilters)
    /\ UNCHANGED <<universities, pc, request, response, history, panel>>

\* nothing happens until the next timer is due
AwaitTimer ==
    /\ panel.mounted
    /\ panel.timers # {}
    /\ \A t \in panel.timers : t.due > panel.now
    /\ panel' = [panel EXCEPT !.now =
                    CHOOSE due \in {t.due : t \in panel.timers} :
                        \A t \in panel.timers : due <= t.due]
    /\ UNCHANGED <<universities, pc, request, response, history, universitiesPage>>

\* the updateFilter calls of a run of the page
MaxPanelEdits == 2

\* a catalog of two pages, none of whose records matches an edit of EditValues
InitPageFilters ==
    /\ universities = [k \in 1..13 |-> CatalogRecord(k)]
    /\ pc = "idle"
    /\ request = NoRequest
    /\ response = NoResponse
    /\ history = NoHistory
    /\ panel = [mounted |-> TRUE, localFilters |-> DefaultFilters, render |-> 1,
                timeouts |-> <<Null>>, timers |-> {}, now |-> 0,
                edits |-> <<>>, calls |-> <<>>]
    /\ universitiesPage = MountedPage

\* the runs of the page with its panel have one request in flight at a time:
\* a response arrives before the next handler sends a request (what requests
\* in flight together do is the matter of SpecFetch)
MaySend == universitiesPage.inflight = <<>>

NextPageFilters ==
    \/ /\ Len(panel.edits) < MaxPanelEdits
       /\ \/ UpdateFilter("search", Some(<<"O", "l">>))
          \/ UpdateFilter("minTuition", Some(N(10)))
    \/ MaySend /\ ResetFilters
    \/ MaySend /\ TimerFires
    \/ AwaitTimer
    \/ MaySend /\ ChangeSort(SortRanking \o <<"-">> \o Asc)
    \/ MaySend /\ ClickResetFilters
    \/ MaySend /\ ClickPrevious
    \/ MaySend /\ ClickNext
    \/ ResponseArrives(1)

SpecPageFilters == InitPageFilters /\ [][NextPageFilters]_vars

----------------------------------------------------------------------------
(* Claims about the filters of the page *)

PageFilters == universitiesPage.filters

LastSent(p) == p.inflight[Len(p.inflight)]

\* the fields of filters other than key and page are those of before
OnlyChanges(key) ==
    \A f \in DOMAIN DefaultFilters \ {key, "page"} :
        universitiesPage'.filters[f] = universitiesPage.filters[f]

\* C25: when the timer of a FilterPanel edit fires, the filters of the page
\* change in the edited field and in page only: every other field, a
\* sortBy / sortOrder chosen with the sort select and the state the page's
\* "Reset Filters" button left included, stays as it was.
C25_PanelEditChangesOneField ==
    [][(universitiesPage.mounted /\ TimerFires) =>
            \E key \in EditKeys : OnlyChanges(key)]_vars

\* C25, for the sort: an onFilterChange of the panel never changes the
\* sortBy of the page
C25_PanelEditKeepsSort ==
    [][(universitiesPage.mounted /\ TimerFires) =>
            universitiesPage'.filters.sortBy = universitiesPage.filters.sortBy]_vars

\* C25, for the cleared state: when the page holds the default filters, as
\* after its "Reset Filters" button (the panel's own "Reset All" not having
\* been used), an onFilterChange of the panel sets one field and page and
\* nothing else
C25_PanelEditKeepsClearedState ==
    [][(/\ universitiesPage.mounted
        /\ universitiesPage.filters = DefaultFilters
        /\ \A k \in 1..Len(panel.calls) : panel.calls[k].via = "debounce"
        /\ TimerFires) =>
            \E key \in EditKeys : OnlyChanges(key)]_vars

\* C26: updateFilter and resetFilters of the panel, the sort select and the
\* page's "Reset Filters" ask for page 1; Previous and Next change the page
\* and no other field of filters; and each of them sends the request for the
\* filters it has set.
C26_Step ==
    /\ (\E key \in EditKeys : \E value \in EditValues(key) : UpdateFilter(key, value))
        => /\ panel'.localFilters.page = N(1)
           /\ panel'.edits[Len(panel'.edits)].filters = panel'.localFilters
    /\ (TimerFires \/ ResetFilters \/ ClickResetFilters
            \/ ChangeSort(SortRanking \o <<"-">> \o Asc))
        => /\ universitiesPage'.filters.page = N(1)
           /\ LastSent(universitiesPage') = universitiesPage'.filters
    /\ (ClickPrevious \/ ClickNext)
        => /\ OnlyChanges("page")
           /\ universitiesPage'.filters.page
                \in {universitiesPage.pagination.page - N(1),
                     universitiesPage.pagination.page + N(1)}
           /\ LastSent(universitiesPage') = universitiesPage'.filters
    /\ (\E f \in DOMAIN DefaultFilters \ {"page"} :
            universitiesPage'.filters[f] # universitiesPage.filters[f])
        => universitiesPage'.filters.page = N(1)

C26_FilterAndSortChangesAskForPageOne ==
    [](universitiesPage.mounted /\ panel.mounted) /\ [][C26_Step]_vars

\* page 2 is shown and the sort select has just been changed: the request in
\* flight asks for page 1 of the sorted list
C26_Witness ==
    /\ universitiesPage.mounted
    /\ universitiesPage.pagination.page = N(2)
    /\ Len(universitiesPage.universities) = 1
    /\ PageFilters.sortBy = Some(SortRanking)
    /\ PageFilters.page = N(1)
    /\ universitiesPage.inflight = <<PageFilters>>

\* Next has been clicked with a sort chosen: the request in flight asks for
\* page 2 of the same sort
C26_NextKeepsSortReached ==
    /\ universitiesPage.mounted
    /\ universitiesPage.pagination.page = N(1)
    /\ PageFilters = [DefaultFilters EXCEPT !.sortBy = Some(SortRanking),
                                            !.page = N(2)]
    /\ universitiesPage.inflight = <<PageFilters>>

\* the panel's "Reset All" has been clicked on page 1 of a filtered list
C26_PanelResetReached ==
    /\ universitiesPage.mounted
    /\ Len(panel.calls) = 2
    /\ panel.calls[2].via = "reset"
    /\ PageFilters = DefaultFilters
    /\ universitiesPage.inflight = <<DefaultFilters>>

----------------------------------------------------------------------------
(* debounce(func, wait): one returned function, called again and again.    *)
(* panel holds its closure (slot 1 of timeouts), the timers, the clock, the *)
(* calls made (edits) and the invocations of func (calls).                  *)

\* the calls of the debounced function in a run
MaxCalls == 3

\* the arguments the calls pass
CallArgs == {"a", "b"}

InitDebounce ==
    /\ universities = <<>>
    /\ pc = "idle"
    /\ request = NoRequest
    /\ response = NoResponse
    /\ history = NoHistory
    /\ panel = [mounted |-> TRUE, timeouts |-> <<Null>>, timers |-> {}, now |-> 0,
                edits |-> <<>>, calls |-> <<>>]
    /\ universitiesPage = NoPage

\* the debounced function is called; calls stop early enough for the clock
\* of the run to reach the end of the wait
DebouncedCall(args) ==
    /\ panel.mounted
    /\ Len(panel.edits) < MaxCalls
    /\ panel.now + DebounceWait <= MaxSteps * StepMs
    /\ \A t \in panel.timers : t.due > panel.now
    /\ panel' = [executedFunction(panel, 1, args) EXCEPT
                    !.edits = Append(@, [at |-> panel.now, filters |-> args])]
    /\ UNCHANGED <<universities, pc, request, response, history, universitiesPage>>

\* the timer is due and the event loop runs later()
LaterRuns ==
    /\ panel.mounted
    /\ \E t \in panel.timers :
        /\ t.due <= panel.now
        /\ \A o \in panel.timers :
            o.due > t.due \/ (o.due = t.due /\ o.id >= t.id)
        /\ panel' = later(panel, t)
    /\ UNCHANGED <<universities, pc, request, response, history, universitiesPage>>

NextDebounce ==
    \/ \E args \in CallArgs : DebouncedCall(args)
    \/ LaterRuns
    \/ Tick

SpecDebounce == InitDebounce /\ [][NextDebounce]_vars

\* time passes, and the event loop runs a timer that is due
SpecDebounceFair ==
    InitDebounce /\ [][NextDebounce]_vars /\ WF_vars(Tick) /\ WF_vars(LaterRuns)

----------------------------------------------------------------------------
(* Claims about debounce *)

\* call i was followed by another before its wait was over
Superseded(i) ==
    /\ Len(panel.edits) > i
    /\ panel.edits[i + 1].at - panel.edits[i].at < DebounceWait

\* func has run for call i: wait after it, with its arguments, once
Invoked(i) ==
    /\ i <= Len(panel.edits)
    /\ Cardinality({k \in 1..Len(panel.calls) :
                    /\ panel.calls[k].at = panel.edits[i].at + DebounceWait
                    /\ panel.calls[k].filters = panel.edits[i].filters}) = 1

DebounceSafe ==
    /\ Cardinality(panel.timers) <= 1
    /\ \A t \in panel.timers :
        /\ t.id = Len(panel.edits)
        /\ t.args = panel.edits[t.id].filters
        /\ t.due = panel.edits[t.id].at + DebounceWait
    /\ \A k \in 1..Len(panel.calls) :
        \E i \in 1..Len(panel.edits) :
            /\ ~Superseded(i)
            /\ panel.calls[k].at = panel.edits[i].at + DebounceWait
            /\ panel.calls[k].filters = panel.edits[i].filters
    /\ \A k, l \in 1..Len(panel.calls) :
        k < l => panel.calls[k].at < panel.calls[l].at

\* C23: for one debounced function, a call cancels the pending one, so at
\* most one invocation of func is pending, that of the most recent call;
\* func runs only wait after a call that no call followed within wait, with
\* the arguments of that call; and every call is in the end either
\* superseded by a later call of its burst or followed by exactly one
\* invocation of func for it.
C23_DebounceRunsLastCallOfBurst ==
    /\ [](panel.mounted /\ DebounceSafe)
    /\ \A i \in 1..MaxCalls :
        (Len(panel.edits) >= i) ~> (Superseded(i) \/ Invoked(i))

\* a burst of two calls, then a single call: func has run twice, for the
\* second and for the third call
C23_Witness ==
    /\ Len(panel.edits) = 3
    /\ Superseded(1)
    /\ ~Superseded(2)
    /\ panel.edits[1].filters # panel.edits[2].filters
    /\ Len(panel.calls) = 2
    /\ Invoked(2)
    /\ Invoked(3)
    /\ panel.timers = {}

----------------------------------------------------------------------------
(* ComparisonModal: the comparison table and the cell it highlights *)

\* Number.prototype.toLocaleString('en-US') of a whole number: its digits in
\* groups of three
RECURSIVE GroupThousands(_)
GroupThousands(digits) ==
    IF Len(digits) <= 3 THEN digits
    ELSE GroupThousands(SubSeq(digits, 1, Len(digits) - 3))
            \o <<",">> \o SubSeq(digits, Len(digits) - 2, Len(digits))

\* amount.toLocaleString('en-US', {maximumFractionDigits: 0}): rounded to a
\* whole number, halves away from zero
toLocaleStringWhole(amount) ==
    LET whole == (2 * MathAbs(amount) + Unit) \div (2 * Unit) IN
    (IF amount < 0 /\ whole > 0 THEN <<"-">> ELSE <<>>)
        \o GroupThousands(DigitsOf(whole))

currencySymbol(currency) ==
    CASE currency = <<"U", "S", "D">> -> <<"$">>
      [] currency = <<"G", "B", "P">> -> <<"£">>
      [] currency = <<"E", "U", "R">> -> <<"€">>
      [] currency = <<"C", "A", "D">> -> <<"C", "$">>
      [] currency = <<"A", "U", "D">> -> <<"A", "$">>
      [] currency = <<"S", "G", "D">> -> <<"S", "$">>
      [] currency = <<"C", "H", "F">> -> <<"C", "H", "F">>
      [] currency = <<"J", "P", "Y">> -> <<"¥">>
      [] currency = <<"C", "N", "Y">> -> <<"¥">>
      [] OTHER -> currency

formatCurrency(amount, currency) ==
    currencySymbol(currency) \o toLocaleStringWhole(amount)

\* num.toFixed(1), then "%"
formatPercentage(num) ==
    LET a == MathAbs(num) IN
    (IF num < 0 THEN <<"-">> ELSE <<>>)
        \o DigitsOf(a \div Unit) \o <<".">>
        \o DigitsOf((a % Unit) \div (Unit \div 10)) \o <<"%">>

\* a < b and a > b of JavaScript numbers: false when either is NaN
LessThan(a, b) == ~a.nan /\ ~b.nan /\ a.val < b.val

GreaterThan(a, b) == ~a.nan /\ ~b.nan /\ a.val > b.val

Highlight == "bg-green-50 font-semibold"

\* ComparisonRow.getBgColor: value1 and value2 are the strings of the cells
getBgColor(better, value1, value2, isFirst) ==
    IF better = Null THEN ""
    ELSE LET isValue1Better ==
                IF better = Some("lower")
                THEN LessThan(Number(value1), Number(value2))
                ELSE GreaterThan(Number(value1), Number(value2))
         IN  IF isFirst /\ isValue1Better THEN Highlight
             ELSE IF ~isFirst /\ ~isValue1Better THEN Highlight
             ELSE ""

ComparisonRow(label, value1, value2, better) ==
    [label |-> label, value1 |-> value1, value2 |-> value2,
     first |-> getBgColor(better, value1, value2, TRUE),
     second |-> getBgColor(better, value1, value2, FALSE)]

\* the rows of the table that have a direction, and one that has none
comparisonRows(uni1, uni2) ==
    <<ComparisonRow("Tuition Fee (Annual)",
                    formatCurrency(uni1.tuitionFee, uni1.currency),
                    formatCurrency(uni2.tuitionFee, uni2.currency), Some("lower"))>>
    \o (IF TruthyNumber(uni1.ranking) /\ TruthyNumber(uni2.ranking)
        THEN <<ComparisonRow("World Ranking",
                             <<"#">> \o NumberToString(uni1.ranking[1]),
                             <<"#">> \o NumberToString(uni2.ranking[1]),
                             Some("lower"))>>
        ELSE <<>>)
    \o <<ComparisonRow("Acceptance Rate",
                       formatPercentage(uni1.acceptanceRate),
                       formatPercentage(uni2.acceptanceRate), Null),
         ComparisonRow("Employment Rate",
                       formatPercentage(uni1.employmentRate),
                       formatPercentage(uni2.employmentRate), Some("higher"))>>

\* the modal, open on two selected universities, has its answer from the
\* comparison route and renders the table
ShowComparison(id1, id2) ==
    /\ pc = "idle"
    /\ id1 # id2
    /\ LET res == compareGET(Some(Join2(id1, id2))) IN
        /\ res.status = 200
        /\ pc' = "responded"
        /\ request' = [route |-> "table", universityIds |-> <<id1, id2>>]
        /\ response' = [status |-> 200,
                        universities |-> res.body.universities,
                        rows |-> comparisonRows(res.body.universities[1],
                                                res.body.universities[2])]
    /\ UNCHANGED <<universities, history, panel, universitiesPage>>

ServeTable == Return

NextTable ==
    \/ \E u1, u2 \in Pool : ShowComparison(u1.id, u2.id)
    \/ ServeTable

SpecTable == InitCatalog /\ [][NextTable]_vars

----------------------------------------------------------------------------
(* Claims about the comparison table *)

TableShown == pc = "responded" /\ request.route = "table"

\* uni1 has the strictly better value in the row
FirstIsBetter(row) ==
    LET uni1 == response.universities[1]
        uni2 == response.universities[2]
    IN  CASE row.label = "Tuition Fee (Annual)" -> uni1.tuitionFee < uni2.tuitionFee
          [] row.label = "World Ranking" -> uni1.ranking[1] < uni2.ranking[1]
          [] row.label = "Employment Rate" -> uni1.employmentRate > uni2.employmentRate
          [] OTHER -> FALSE

DirectedRows ==
    {i \in 1..Len(response.rows) : response.rows[i].label # "Acceptance Rate"}

\* C22: in the rows for tuition, world ranking and employment rate, the
\* first column is highlighted exactly when the first university's value is
\* strictly better, and the second column only when the first's is not.
C22_BetterValueHighlighted ==
    TableShown =>
        \A i \in DirectedRows :
            /\ (response.rows[i].first = Highlight) <=> FirstIsBetter(response.rows[i])
            /\ (response.rows[i].second = Highlight) => ~FirstIsBetter(response.rows[i])

\* what the table does: in every row with a direction the second column is
\* highlighted and the first is not, whatever the values
C22_SecondColumnAlwaysHighlighted ==
    TableShown =>
        \A i \in DirectedRows :
            /\ response.rows[i].first = ""
            /\ response.rows[i].second = Highlight
            /\ Number(response.rows[i].value1).nan

\* the first university has the lower tuition and the better ranking, and
\* the table highlights the second column of both rows
C22_WorseValueHighlightedReached ==
    /\ TableShown
    /\ response.universities = <<UniA, UniB>>
    /\ Len(response.rows) = 4
    /\ response.rows[2].value1 = <<"#", "1">>
    /\ response.rows[2].value2 = <<"#", "5">>
    /\ response.rows[2].first = ""
    /\ response.rows[2].second = Highlight
    /\ response.rows[4].value1 = <<"9", "0", ".", "0", "%">>
    /\ response.rows[4].second = Highlight

====
